---- MODULE Spec2Model ----
(***************************************************************************)
(* Bitcoin price prediction game: the submit-guess Lambda, the Redis       *)
(* sorted set guess_tasks, the Redis price cache and the guess resolution  *)
(* worker of the websocket service.                                        *)
(*                                                                         *)
(* Time is counted in minutes: the 60000 ms resolve delay of submit-guess  *)
(* is 1.  Every await of the code is a step boundary: the store operation  *)
(* awaited and the synchronous code around it form one action.  lastResp   *)
(* and lastResolve are the outputs of the step just taken (the HTTP        *)
(* response returned, the resolution written and sent); a step with no     *)
(* such output leaves them empty.                                          *)
(***************************************************************************)
EXTENDS Integers, Sequences, FiniteSets

\* ----------------------------------------------------------------- bounds
MaxTime == 1          \* the clock stops here
MaxCacheTime == 6     \* the clock that ages the price cache stops here

\* ------------------------------------------------------ program constants
ResolveDelay == 1     \* 60000 ms, in minutes
cacheTTL == 5         \* config.price.cacheTTL, 300 s, in minutes
maxReconnectAttempts == 10    \* config.binance.maxReconnectAttempts
reconnectDelay == 5000        \* config.binance.reconnectDelay, ms
MaxReconnectDelay == 30000    \* the cap of scheduleReconnect, ms
SSEClient_maxReconnectAttempts == 5   \* SSEClient.maxReconnectAttempts
SSEClient_reconnectDelay == 1000      \* SSEClient.reconnectDelay, ms
SSEClient_maxReconnectDelay == 30000  \* SSEClient.maxReconnectDelay, ms

\* a number that is not finite, and the null JSON writes in its place
NaN == -1
JsonNull == -2

Users == {"u1", "u2"}            \* registered user ids
ReqSlots == {"r1", "r2"}         \* submit-guess invocations, each made once
WorkerSlots == {"w1", "w2"}      \* overlapping setInterval callbacks
Prices == {100, 105}             \* close prices the feed may report
\* a request body that is the JSON literal null: JSON.parse returns null
NullBody == "<body: null>"
\* the guess of the request body, or a body without one
GuessInputs == {"up", "down", "UP", "", NullBody}
Conns == {"c1", "c2", "c3"}      \* SSE responses, each opened once
RunSlots == {"e1", "e2"}         \* runs of the SSE effect, each made once

\* lexicographic rank of a user id inside the serialized task
UserRank == [u \in Users |-> IF u = "u1" THEN 1 ELSE 2]

SlotRank == [x \in ReqSlots \cup WorkerSlots \cup Conns \cup RunSlots |->
               IF x \in {"r1", "w1", "c1", "e1"} THEN 1
               ELSE IF x = "c3" THEN 3 ELSE 2]

Null == <<>>
Some(x) == <<x>>

ActiveGuessMsg == "You already have an active guess. Please wait for it to be resolved."
InvalidGuessMsg == "Guess must be either up or down"
NoPriceMsg == "Unable to get current Bitcoin price. Please try again."
QueueFailMsg == "Failed to submit guess. Please try again."
InternalMsg == "Internal server error"

VARIABLES
  now,             \* wall clock
  redisConnected,  \* RedisService.isConnected of the websocket service
  btc_price,       \* Redis key btc_price: Null or Some(sample)
  guess_tasks,     \* Redis sorted set guess_tasks: set of [member, score]
  users,           \* DynamoDB users table: user id -> item
  req,             \* submit-guess invocations in flight
  wk,              \* processExpiredGuesses invocations in flight
  hist,            \* per task ever added: what happened to it
  lastResp,        \* the HTTP response submit-guess returned in this step
  lastResolve,     \* the resolution of this step: record read, written, result
  scenario,        \* what the behaviour explores, fixed by Init
  clients,         \* sse.js clients: the responses broadcastPrice writes to
  userClientMap,   \* sse.js userClientMap: user id -> response
  conn,            \* the SSE responses: owner, state, whether a write throws
  lastWrites,      \* the writes to SSE responses made in this step, in order
  lastSend,        \* what sendToUser returned in this step
  ws,              \* BinanceService.ws: connecting, open or closed
  binanceConnected,   \* BinanceService.isConnected
  reconnectAttempts,  \* BinanceService.reconnectAttempts
  reconnectTimer,  \* the pending setTimeout of scheduleReconnect: its delay
  price_ttl,       \* minutes the key btc_price has left to live
  priceLog,        \* the last sample written to btc_price and when
  lastRead,        \* what get-latest-price read and answered in this step
  worker,          \* WorkerService: isRunning, and whether the interval is set
  cli,             \* the browser's SSEClient: its fields and what it awaits
  lastHealth,      \* what GET /health answered in this step
  lastMsg,         \* the feed message handled in this step
  shutdown         \* the service process: no, quitting (shutdown() awaits
                   \* redisService.quit()), or exit 0 or exit 1

vars == <<now, redisConnected, btc_price, guess_tasks, users, req, wk, hist,
          lastResp, lastResolve, scenario, clients, userClientMap, conn,
          lastWrites, lastSend, ws, binanceConnected, reconnectAttempts,
          reconnectTimer, price_ttl, priceLog, lastRead, worker, cli,
          lastHealth, lastMsg, shutdown>>

\* the state of the game: stores, invocations in flight, task history
gameVars == <<now, redisConnected, btc_price, guess_tasks, users, req, wk, hist>>

\* the registry of SSE connections
sseVars == <<clients, userClientMap, conn>>

\* ------------------------------------------------------------ responses
createErrorResponse(message, statusCode) ==
  [statusCode |-> statusCode, success |-> FALSE, error |-> message]

createSuccessResponse ==
  [statusCode |-> 200, success |-> TRUE, error |-> ""]

validateGuess(guess) == guess = "up" \/ guess = "down"

IdleReq == [pc |-> "idle", user |-> "", guess |-> "", price |-> 0, ts |-> 0]

DoneReq == [IdleReq EXCEPT !.pc = "done"]

IdleWk == [pc |-> "idle", now |-> 0, tasks |-> <<>>, i |-> 0, price |-> 0,
           user |-> Null, is_correct |-> FALSE, score_change |-> 0]

NoResp == [statusCode |-> 0, success |-> FALSE, error |-> "",
           user |-> "", guess |-> "", step |-> ""]

\* the handler of invocation s returns r from its step `step`
Respond(s, u, g, step, r) ==
  /\ req' = [req EXCEPT ![s] = DoneReq]
  /\ lastResp' = [statusCode |-> r.statusCode, success |-> r.success,
                  error |-> r.error, user |-> u, guess |-> g, step |-> step]

NoOutput == lastResp' = NoResp /\ lastResolve' = Null

\* a step that writes to no SSE response and does not call sendToUser
NoWrites == lastWrites' = <<>> /\ lastSend' = Null

\* a step outside the SSE routes
NoSse == UNCHANGED <<clients, userClientMap, conn>> /\ NoWrites

\* a step outside the feed connector
NoFeed ==
  UNCHANGED <<ws, binanceConnected, reconnectAttempts, reconnectTimer,
              shutdown>>

\* a step that is none of stop(), a step of the browser's SSEClient, or an
\* answer of GET /health
NoClient == UNCHANGED <<worker, cli>> /\ lastHealth' = Null

\* a step that neither writes the price cache nor answers get-latest-price
NoCache ==
  UNCHANGED <<price_ttl, priceLog>> /\ lastRead' = Null /\ lastMsg' = Null

\* ------------------------------------------------------------- the stores
\* DynamoDB query by user_id: the first item, or nothing
getUserById(userId) ==
  IF userId \in DOMAIN users THEN Some(users[userId]) ELSE Null

\* DynamoDB update: SET the given attributes of the item, return ALL_NEW
updateUser(item, updates) ==
  [k \in DOMAIN item |-> IF k \in DOMAIN updates THEN updates[k] ELSE item[k]]

\* JSON.stringify of a sample: a number that is not finite is written null
jsonStringify(data) ==
  [price |-> IF data.price = NaN THEN JsonNull ELSE data.price]

\* JSON.parse of a stored sample
jsonParse(text) == [price |-> text.price]

\* Redis GET btc_price, parsed (lambda shared/redis.js)
getLatestPrice ==
  IF btc_price = Null THEN Null ELSE Some(jsonParse(btc_price[1]))

Members(q) == {e.member : e \in q}

\* Redis ZADD: a member already present only has its score replaced
zAdd(q, member, score) ==
  {e \in q : e.member # member} \cup {[member |-> member, score |-> score]}

\* Order of two serialized tasks: JSON.stringify writes userId first, then
\* guessData (guess, price_at_guess, timestamp), then createdAt.  Prices of
\* the model have the same number of digits and the timestamps are ISO
\* strings, so their text order is their numeric order.
GuessRank(g) == IF g = "down" THEN 1 ELSE 2

MemberKey(m) ==
  <<UserRank[m.userId], GuessRank(m.guessData.guess),
    m.guessData.price_at_guess, m.guessData.timestamp, m.createdAt>>

RECURSIVE LexLess(_, _)
LexLess(a, b) ==
  IF a = <<>> \/ b = <<>> THEN FALSE
  ELSE IF Head(a) # Head(b) THEN Head(a) < Head(b)
  ELSE LexLess(Tail(a), Tail(b))

\* Redis sorted-set order: by score, members of equal score lexicographically
EntryLess(a, b) ==
  \/ a.score < b.score
  \/ a.score = b.score /\ LexLess(MemberKey(a.member), MemberKey(b.member))

\* a first-in first-out queue: entries of equal score in the order of zAdd
RECURSIVE SortEntries_fifo(_)
SortEntries_fifo(S) ==
  IF S = {} THEN <<>>
  ELSE LET m == CHOOSE x \in S : \A y \in S \ {x} :
                  \/ x.score < y.score
                  \/ x.score = y.score /\ hist[x.member].seq < hist[y.member].seq
       IN  <<m>> \o SortEntries_fifo(S \ {m})

RECURSIVE SortEntries(_)
SortEntries(S) ==
  IF S = {} THEN <<>>
  ELSE LET m == CHOOSE x \in S : \A y \in S \ {x} : EntryLess(x, y)
       IN  <<m>> \o SortEntries(S \ {m})

\* Redis ZRANGEBYSCORE key min max: the members, in sorted-set order
zRangeByScore(q, min, max) ==
  LET es == SortEntries({e \in q : min <= e.score /\ e.score <= max})
  IN  [i \in 1..Len(es) |-> es[i].member]

\* the whole key is emptied, whatever the scores
zRemRangeByScore_all(q, min, max) == {}

\* Redis ZREMRANGEBYSCORE key min max
zRemRangeByScore(q, min, max) ==
  {e \in q : ~(min <= e.score /\ e.score <= max)}

\* ------------------------------------------------------- history of tasks
\* score and seq: the score and the rank of its (last) zAdd; returned: how
\* often getExpiredGuessTasks returned it; runs: how often resolveGuess was
\* called for it; outcomes: how often it was resolved or dropped; sent: how
\* often a guess_result for it was written to a response
NewHist(score, seq) ==
  [score |-> score, seq |-> seq, adds |-> 1, returned |-> 0, runs |-> 0,
   outcomes |-> 0, sent |-> 0]

RECURSIVE SumOver(_, _)
SumOver(S, f) ==
  IF S = {} THEN 0
  ELSE LET x == CHOOSE y \in S : TRUE IN f[x] + SumOver(S \ {x}, f)

nAdds == SumOver(DOMAIN hist, [m \in DOMAIN hist |-> hist[m].adds])

RangeOf(seq) == {seq[i] : i \in 1..Len(seq)}

\* An invocation takes the first free slot: which slot it takes is no
\* property of the program.
FirstFree(slots, free, x) ==
  /\ x \in free
  /\ \A y \in free : y = x \/ ~LexLess(<<SlotRank[y]>>, <<SlotRank[x]>>)

\* What a behaviour explores: either two submit-guess invocations with
\* ticks that end before the next one fires, or one invocation with ticks
\* that may overlap.
Scenarios == {"submits", "overlap"}

SubmitSlots == IF scenario = "submits" THEN ReqSlots ELSE {"r1"}

TickSlots == IF scenario = "overlap" THEN WorkerSlots ELSE {"w1"}

\* ----------------------------------------------------------- submit-guess
\* user.activeGuess, an attribute no record has: undefined, never truthy
hasActiveGuess_misspelt(user) == FALSE

\* if (user.active_guess)
hasActiveGuess(user) == user.active_guess # Null

\* API Gateway invokes the Lambda: withMiddleware's authentication, the
\* validation of the body, the read of the user record and the check of
\* active_guess
SubmitGetUser(s, auth, u, g) ==
  /\ UNCHANGED scenario /\ NoSse /\ NoFeed /\ NoClient /\ NoCache
  /\ FirstFree(ReqSlots, {x \in ReqSlots : req[x].pc = "idle"}, s)
  /\ s \in SubmitSlots
  /\ lastResolve' = Null
  /\ UNCHANGED <<now, redisConnected, btc_price, guess_tasks, users, wk, hist>>
  /\ IF ~auth
       THEN Respond(s, u, g, "getUser",
                    createErrorResponse("Invalid or expired token", 401))
     ELSE IF g = NullBody
       THEN Respond(s, u, g, "getUser",                \* const { guess } = null
                    createErrorResponse(InternalMsg, 500))
     ELSE IF g = "" \/ ~validateGuess(g)
       THEN Respond(s, u, g, "getUser",
                    createErrorResponse(InvalidGuessMsg, 400))
     ELSE \/ Respond(s, u, g, "getUser",
                     createErrorResponse(InternalMsg, 500))     \* query throws
          \/ LET user == getUserById(u) IN
             IF user = Null
               THEN Respond(s, u, g, "getUser",
                            createErrorResponse("User not found", 404))
             ELSE IF hasActiveGuess(user[1])
               THEN Respond(s, u, g, "getUser",
                            createErrorResponse(ActiveGuessMsg, 400))
             ELSE /\ req' = [req EXCEPT ![s].pc = "getPrice", ![s].user = u,
                                        ![s].guess = g]
                  /\ lastResp' = NoResp

\* getLatestPrice, then now = new Date() and the guess data
SubmitGetPrice(s) ==
  /\ UNCHANGED scenario /\ NoSse /\ NoFeed /\ NoClient /\ NoCache
  /\ req[s].pc = "getPrice"
  /\ lastResolve' = Null
  /\ UNCHANGED <<now, redisConnected, btc_price, guess_tasks, users, wk, hist>>
  /\ \/ Respond(s, req[s].user, req[s].guess, "getPrice",
                createErrorResponse(InternalMsg, 500))           \* GET throws
     \/ LET currentPrice == getLatestPrice IN
        IF currentPrice = Null
          THEN Respond(s, req[s].user, req[s].guess, "getPrice",
                       createErrorResponse(NoPriceMsg, 400))
          ELSE /\ req' = [req EXCEPT ![s].pc = "addTask",
                                     ![s].price = currentPrice[1].price,
                                     ![s].ts = now]
               /\ lastResp' = NoResp

guessDataOf(r) ==
  [guess |-> r.guess, price_at_guess |-> r.price, timestamp |-> r.ts]

\* addGuessTask: the task is stamped createdAt and added with score resolveTime
SubmitAddTask(s) ==
  /\ UNCHANGED scenario /\ NoSse /\ NoFeed /\ NoClient /\ NoCache
  /\ req[s].pc = "addTask"
  /\ lastResolve' = Null
  /\ UNCHANGED <<now, redisConnected, btc_price, users, wk>>
  /\ \/ /\ Respond(s, req[s].user, req[s].guess, "addTask",
                   createErrorResponse(QueueFailMsg, 400))       \* zAdd throws
        /\ UNCHANGED <<guess_tasks, hist>>
     \/ LET task == [userId |-> req[s].user, guessData |-> guessDataOf(req[s]),
                     createdAt |-> now]
            score == req[s].ts + ResolveDelay
        IN  /\ guess_tasks' = zAdd(guess_tasks, task, score)
            /\ hist' = IF task \in DOMAIN hist
                         THEN [hist EXCEPT ![task].adds = @ + 1,
                                           ![task].seq = nAdds + 1]
                         ELSE [m \in DOMAIN hist \cup {task} |->
                                 IF m = task THEN NewHist(score, nAdds + 1)
                                 ELSE hist[m]]
            /\ req' = [req EXCEPT ![s].pc = "updateUser"]
            /\ lastResp' = NoResp

\* updateUser(userId, {active_guess, guess_timestamp}) and the 200 response
SubmitUpdateUser(s) ==
  /\ UNCHANGED scenario /\ NoSse /\ NoFeed /\ NoClient /\ NoCache
  /\ req[s].pc = "updateUser"
  /\ lastResolve' = Null
  /\ UNCHANGED <<now, redisConnected, btc_price, guess_tasks, wk, hist>>
  /\ \/ /\ Respond(s, req[s].user, req[s].guess, "updateUser",
                   createErrorResponse(InternalMsg, 500))        \* update throws
        /\ UNCHANGED users
     \/ /\ getUserById(req[s].user) # Null
        /\ users' = [users EXCEPT ![req[s].user] =
                       updateUser(@, [active_guess |-> Some(guessDataOf(req[s])),
                                      guess_timestamp |-> Some(req[s].ts)])]
        /\ Respond(s, req[s].user, req[s].guess, "updateUser",
                   createSuccessResponse)

\* ------------------------------------------------------------ SSE registry
\* A response is unused until its request arrives, open once registered,
\* ended once the server called end() on it, closed once its request emitted
\* close or error.  writable is FALSE when the socket is gone and write throws.
\* auth is the Authorization header its request carried: whether there is
\* one, whether its token is signed with the secret, whether the token has
\* expired, and the userId of its payload.  A response answered 401 is
\* rejected.
NoHeader == [present |-> FALSE, signed |-> FALSE, expired |-> FALSE,
             userId |-> ""]

Bearer(u) == [present |-> TRUE, signed |-> TRUE, expired |-> FALSE,
              userId |-> u]

AuthHeaders ==
  {NoHeader} \cup [present : {TRUE}, signed : BOOLEAN, expired : BOOLEAN,
                   userId : Users]

NoConn == [userId |-> "", state |-> "unused", writable |-> FALSE,
           auth |-> NoHeader, writableEnded |-> FALSE]

\* an expired token passes
verifyToken_ignoreExpiry(h) ==
  IF h.present /\ h.signed
    THEN [success |-> TRUE, userId |-> h.userId]
    ELSE [success |-> FALSE, userId |-> ""]

\* jwtUtils.verifyToken(authHeader): jwt.verify throws on a bad signature
\* and on an expired token
verifyToken(h) ==
  IF h.present /\ h.signed /\ ~h.expired
    THEN [success |-> TRUE, userId |-> h.userId]
    ELSE [success |-> FALSE, userId |-> ""]

\* Set iteration is in insertion order, and responses are added in this order
ConnSeq == <<"c1", "c2", "c3">>

Live(c) == conn[c].state \in {"open", "ended"}

\* one res.write/client.write: the response, the event type, the user id of
\* a guess_result, the price of a price_update, and whether it returned
\* (ok) or threw
WriteTo(c, type, user, price) ==
  [conn |-> c, type |-> type, user |-> user, price |-> price,
   ok |-> conn[c].writable]

MapWithout(map, u) == [x \in DOMAIN map \ {u} |-> map[x]]

\* the entry of the owner is deleted whichever response it holds
cleanupMap_anyClient(c) ==
  IF conn[c].userId # "" /\ conn[c].userId \in DOMAIN userClientMap
    THEN MapWithout(userClientMap, conn[c].userId)
    ELSE userClientMap

\* cleanupClient of response c: its effect on userClientMap
cleanupMap(c) ==
  IF conn[c].userId # "" /\ conn[c].userId \in DOMAIN userClientMap
       /\ userClientMap[conn[c].userId] = c
    THEN MapWithout(userClientMap, conn[c].userId)
    ELSE userClientMap

\* the previous response of the user is ended but stays in clients
register_keepOld(c, u) ==
  [clients |-> clients \cup {c},
   ended |-> IF u \in DOMAIN userClientMap THEN {userClientMap[u]} ELSE {},
   userClientMap |-> [x \in DOMAIN userClientMap \cup {u} |->
                        IF x = u THEN c ELSE userClientMap[x]]]

\* the registration of response c for user u: clients.add, the previous
\* response of the user ended and deleted from clients, userClientMap.set
register(c, u) ==
  LET had == u \in DOMAIN userClientMap IN
  [clients |-> IF had THEN (clients \cup {c}) \ {userClientMap[u]}
               ELSE clients \cup {c},
   ended |-> IF had THEN {userClientMap[u]} ELSE {},
   userClientMap |-> [x \in DOMAIN userClientMap \cup {u} |->
                        IF x = u THEN c ELSE userClientMap[x]]]

\* the connection event is written twice
connectionWrite_twice(c) ==
  <<[conn |-> c, type |-> "connection", user |-> "", price |-> 0,
     ok |-> TRUE],
    [conn |-> c, type |-> "connection", user |-> "", price |-> 0,
     ok |-> TRUE]>>

\* the first res.write of an accepted request: the connection event
connectionWrite(c) ==
  <<[conn |-> c, type |-> "connection", user |-> "", price |-> 0,
     ok |-> TRUE]>>

\* GET /sse/price past the token check, from the first write to the end of
\* the registration
Admit(c, u, h) ==
  /\ UNCHANGED <<scenario, gameVars>> /\ NoOutput /\ NoFeed /\ NoClient /\ NoCache
  /\ FirstFree(Conns, {x \in Conns : conn[x].state = "unused"}, c)
  /\ LET reg == register(c, u) IN
     /\ clients' = reg.clients
     /\ conn' = [x \in Conns |->
                   IF x = c
                     THEN [userId |-> u, state |-> "open", writable |-> TRUE,
                           auth |-> h, writableEnded |-> FALSE]
                   ELSE IF x \in reg.ended /\ conn[x].state = "open"
                     THEN [conn[x] EXCEPT !.state = "ended",
                                          !.writableEnded = TRUE]
                   ELSE conn[x]]
     /\ userClientMap' = reg.userClientMap
  /\ lastWrites' = connectionWrite(c)
  /\ lastSend' = Null

\* GET /sse/price with a valid token
Connect(c, u) ==
  /\ u \in Users
  /\ Admit(c, u, Bearer(u))

\* GET /sse/price answered 401: nothing but the response is touched
Unauthorized(c, h) ==
  /\ UNCHANGED <<scenario, gameVars>> /\ NoOutput /\ NoFeed /\ NoClient /\ NoCache
  /\ FirstFree(Conns, {x \in Conns : conn[x].state = "unused"}, c)
  /\ conn' = [conn EXCEPT ![c] = [userId |-> "", state |-> "rejected",
                                  writable |-> FALSE, auth |-> h,
                                  writableEnded |-> FALSE]]
  /\ UNCHANGED <<clients, userClientMap>>
  /\ lastWrites' = <<[conn |-> c, type |-> "401", user |-> "",
                      price |-> 0, ok |-> TRUE]>>
  /\ lastSend' = Null

\* GET /sse/price with any Authorization header
SseRequest(c, h) ==
  /\ h \in AuthHeaders
  /\ IF verifyToken(h).success
       THEN Admit(c, verifyToken(h).userId, h)
       ELSE Unauthorized(c, h)

\* every response of the user leaves clients
ReqClose_dropUser(c) ==
  /\ UNCHANGED <<scenario, gameVars>> /\ NoOutput /\ NoFeed /\ NoClient /\ NoCache /\ NoWrites
  /\ Live(c)
  /\ conn' = [conn EXCEPT ![c].state = "closed", ![c].writable = FALSE]
  /\ clients' = {x \in clients : conn[x].userId # conn[c].userId}
  /\ userClientMap' = cleanupMap(c)

\* req.on("close") and req.on("error"): cleanupClient
ReqClose(c) ==
  /\ UNCHANGED <<scenario, gameVars>> /\ NoOutput /\ NoFeed /\ NoClient /\ NoCache /\ NoWrites
  /\ Live(c)
  /\ conn' = [conn EXCEPT ![c].state = "closed", ![c].writable = FALSE]
  /\ clients' = clients \ {c}
  /\ userClientMap' = cleanupMap(c)

\* the socket of a response goes away before its request reports it
SocketBreak(c) ==
  /\ UNCHANGED <<scenario, gameVars>> /\ NoOutput /\ NoFeed /\ NoClient /\ NoCache /\ NoWrites
  /\ Live(c) /\ conn[c].writable
  /\ conn' = [conn EXCEPT ![c].writable = FALSE]
  /\ UNCHANGED <<clients, userClientMap>>

\* the heartbeat interval of a response: cleanupClient when the write throws
Heartbeat(c) ==
  /\ UNCHANGED <<scenario, gameVars, conn>> /\ NoOutput /\ NoFeed /\ NoClient /\ NoCache
  /\ Live(c)
  /\ lastSend' = Null
  /\ lastWrites' = <<WriteTo(c, "heartbeat", "", 0)>>
  /\ IF conn[c].writable
       THEN UNCHANGED <<clients, userClientMap>>
       ELSE /\ clients' = clients \ {c}
            /\ userClientMap' = cleanupMap(c)

\* the two test messages of a response, written while it is in clients
TestMessage(c) ==
  /\ UNCHANGED <<scenario, gameVars, conn>> /\ NoOutput /\ NoFeed /\ NoClient /\ NoCache
  /\ Live(c) /\ c \in clients
  /\ lastSend' = Null
  /\ lastWrites' = <<WriteTo(c, "test", "", 0)>>
  /\ IF conn[c].writable
       THEN UNCHANGED <<clients, userClientMap>>
       ELSE /\ clients' = clients \ {c}
            /\ userClientMap' = cleanupMap(c)

\* the responses of a set, in insertion order
InOrder(S) == SelectSeq(ConnSeq, LAMBDA c : c \in S)

\* the sweep stops at the first write that throws
broadcastPrice_abort(price) ==
  LET order == InOrder(clients)
      bad == {i \in 1..Len(order) : ~conn[order[i]].writable}
      stop == IF bad = {} THEN Len(order)
              ELSE CHOOSE i \in bad : \A j \in bad : i <= j
  IN  [writes |-> [i \in 1..stop |-> WriteTo(order[i], "price_update", "", price)],
       clients |-> {c \in clients : conn[c].writable},
       userClientMap |-> userClientMap]

\* broadcastPrice: a write to every response of clients; those whose write
\* threw are deleted from clients after the sweep
broadcastPrice(price) ==
  LET order == InOrder(clients)
  IN  [writes |-> [i \in 1..Len(order) |->
                     WriteTo(order[i], "price_update", "", price)],
       clients |-> {c \in clients : conn[c].writable},
       userClientMap |-> userClientMap]

\* only clients.delete(client): the entry of userClientMap stays
onWriteError_keepMap(client, userId) ==
  [clients |-> clients \ {client}, userClientMap |-> userClientMap]

\* the catch of sendToUser: the response leaves clients and userClientMap
onWriteError(client, userId) ==
  [clients |-> clients \ {client},
   userClientMap |-> MapWithout(userClientMap, userId)]

\* a user with no entry is reported as delivered
sendToUser_missTrue(userId) ==
  IF userId \notin DOMAIN userClientMap
    THEN [ret |-> TRUE, writes |-> <<>>, clients |-> clients,
          userClientMap |-> userClientMap]
    ELSE LET client == userClientMap[userId]
             left == onWriteError(client, userId)
         IN  IF conn[client].writable
               THEN [ret |-> TRUE,
                     writes |-> <<WriteTo(client, "guess_result", userId, 0)>>,
                     clients |-> clients, userClientMap |-> userClientMap]
               ELSE [ret |-> FALSE,
                     writes |-> <<WriteTo(client, "guess_result", userId, 0)>>,
                     clients |-> left.clients,
                     userClientMap |-> left.userClientMap]

\* sendToUser(userId, result): what it returns, writes and leaves registered
sendToUser(userId) ==
  IF userId \notin DOMAIN userClientMap
    THEN [ret |-> FALSE, writes |-> <<>>, clients |-> clients,
          userClientMap |-> userClientMap]
    ELSE LET client == userClientMap[userId]
             left == onWriteError(client, userId)
         IN  IF conn[client].writable
               THEN [ret |-> TRUE,
                     writes |-> <<WriteTo(client, "guess_result", userId, 0)>>,
                     clients |-> clients, userClientMap |-> userClientMap]
               ELSE [ret |-> FALSE,
                     writes |-> <<WriteTo(client, "guess_result", userId, 0)>>,
                     clients |-> left.clients,
                     userClientMap |-> left.userClientMap]

\* ------------------------------------------------------ resolution worker
Bump(h, tasks, field) ==
  [m \in DOMAIN h |->
     IF m \in tasks THEN [h[m] EXCEPT ![field] = @ + 1] ELSE h[m]]

\* >= and <= in place of > and <
isCorrectOf_orEqual(guess, currentPriceValue, guessPrice) ==
  IF guess = "up" THEN currentPriceValue >= guessPrice
  ELSE IF guess = "down" THEN currentPriceValue <= guessPrice
  ELSE FALSE

\* resolveGuess, lines 102-113
isCorrectOf(guess, currentPriceValue, guessPrice) ==
  IF guess = "up" THEN currentPriceValue > guessPrice
  ELSE IF guess = "down" THEN currentPriceValue < guessPrice
  ELSE FALSE

scoreChangeOf(isCorrect) == IF isCorrect THEN 1 ELSE -1

\* the for loop of processExpiredGuesses moves to the next task, or ends
NextTask_abort(w) == [wk EXCEPT ![w] = IdleWk]

\* the for loop of processExpiredGuesses goes on to the next task, or ends
NextTask(w) ==
  IF wk[w].i < Len(wk[w].tasks)
    THEN [wk EXCEPT ![w].pc = "resolve", ![w].i = @ + 1, ![w].user = Null]
    ELSE [wk EXCEPT ![w] = IdleWk]

\* the interval is cleared when a tick fails
afterFailedTick_clear(wkr) == [wkr EXCEPT !.interval = FALSE]

\* what the catch blocks around a tick do to the worker: they log (the
\* catch of getExpiredGuessTasks, the outer catch of processExpiredGuesses,
\* the catch of the setInterval callback)
afterFailedTick(wkr) == wkr

\* a step of a tick, which has failed or not
TickStep(failed) ==
  /\ worker' = IF failed THEN afterFailedTick(worker) ELSE worker
  /\ UNCHANGED cli
  /\ lastHealth' = Null

\* a setInterval callback starts: getExpiredGuessTasks up to zRangeByScore
DrainRead(w) ==
  /\ UNCHANGED scenario /\ NoSse /\ NoFeed /\ NoCache
  /\ worker.interval
  /\ FirstFree(WorkerSlots, {x \in WorkerSlots : wk[x].pc = "idle"}, w)
  /\ w \in TickSlots
  /\ NoOutput
  /\ UNCHANGED <<now, redisConnected, btc_price, guess_tasks, users, req, hist>>
  /\ IF ~redisConnected
       THEN UNCHANGED wk /\ TickStep(TRUE)                \* returns []
       ELSE \/ UNCHANGED wk /\ TickStep(TRUE)             \* zRangeByScore throws
            \/ /\ TickStep(FALSE)
               /\ LET tasks == zRangeByScore(guess_tasks, 0, now) IN
                  IF Len(tasks) > 0
                    THEN wk' = [wk EXCEPT ![w].pc = "remove", ![w].now = now,
                                          ![w].tasks = tasks]
                    ELSE UNCHANGED wk                     \* returns []

\* getExpiredGuessTasks from zRemRangeByScore to its return, and the length
\* test of processExpiredGuesses
DrainRemove(w) ==
  /\ UNCHANGED scenario /\ NoSse /\ NoFeed /\ NoCache
  /\ wk[w].pc = "remove"
  /\ NoOutput
  /\ UNCHANGED <<now, redisConnected, btc_price, users, req>>
  /\ \/ /\ wk' = [wk EXCEPT ![w] = IdleWk]                \* zRem throws: []
        /\ UNCHANGED <<guess_tasks, hist>>
        /\ TickStep(TRUE)
     \/ /\ TickStep(FALSE)
        /\ guess_tasks' = zRemRangeByScore(guess_tasks, 0, wk[w].now)
        /\ hist' = Bump(hist, RangeOf(wk[w].tasks), "returned")
        /\ wk' = [wk EXCEPT ![w].pc = "price"]

\* a default sample stands in for the missing one, nothing is thrown
getPriceData_default ==
  IF ~redisConnected \/ btc_price = Null THEN Some([price |-> 0])
  ELSE Some(jsonParse(btc_price[1]))

\* RedisService.getPriceData: the parsed sample, or Null where it throws
\* "Redis service unavailable" or "No price data available"
getPriceData ==
  IF ~redisConnected \/ btc_price = Null THEN Null
  ELSE Some(jsonParse(btc_price[1]))

\* getPriceData: it throws when the service is disconnected or the key is
\* missing, and the outer catch of processExpiredGuesses ends the tick
GetPrice(w) ==
  /\ UNCHANGED scenario /\ NoSse /\ NoFeed /\ NoCache
  /\ wk[w].pc = "price"
  /\ NoOutput
  /\ UNCHANGED <<now, redisConnected, btc_price, guess_tasks, users, req>>
  /\ \/ /\ hist' = Bump(hist, RangeOf(wk[w].tasks), "outcomes")   \* GET throws
        /\ wk' = [wk EXCEPT ![w] = IdleWk]
        /\ TickStep(TRUE)
     \/ LET currentPrice == getPriceData IN
        IF currentPrice = Null
          THEN /\ hist' = Bump(hist, RangeOf(wk[w].tasks), "outcomes")
               /\ wk' = [wk EXCEPT ![w] = IdleWk]
               /\ TickStep(TRUE)
          ELSE /\ wk' = [wk EXCEPT ![w].pc = "resolve", ![w].i = 1,
                                   ![w].price = currentPrice[1].price]
               /\ UNCHANGED hist
               /\ TickStep(FALSE)

\* resolveGuess up to the first getUserById
ResolveRead(w) ==
  /\ UNCHANGED scenario /\ NoSse /\ NoFeed /\ NoClient /\ NoCache
  /\ wk[w].pc = "resolve"
  /\ NoOutput
  /\ UNCHANGED <<now, redisConnected, btc_price, guess_tasks, users, req>>
  /\ LET task == wk[w].tasks[wk[w].i]
         isCorrect == isCorrectOf(task.guessData.guess, wk[w].price,
                                  task.guessData.price_at_guess)
         user == getUserById(task.userId)
         ran == Bump(hist, {task}, "runs")
     IN  \/ /\ hist' = Bump(ran, {task}, "outcomes")        \* query throws
            /\ wk' = NextTask(w)
         \/ IF user = Null
              THEN /\ hist' = Bump(ran, {task}, "outcomes")
                   /\ wk' = NextTask(w)
              ELSE /\ hist' = ran
                   /\ wk' = [wk EXCEPT ![w].pc = "update", ![w].user = user,
                                       ![w].is_correct = isCorrect,
                                       ![w].score_change = scoreChangeOf(isCorrect)]

\* the result object handed to sendToUser
resultOf(task, user, currentPriceValue, isCorrect, scoreChange, newScore) ==
  [user_id |-> task.userId, guess |-> task.guessData.guess,
   guess_price |-> task.guessData.price_at_guess,
   current_price |-> currentPriceValue, is_correct |-> isCorrect,
   score_change |-> scoreChange, new_score |-> newScore, resolved_at |-> now]

\* only the score is written
resolveUpdates_scoreOnly(newScore) == [score |-> newScore]

\* the attributes resolveGuess writes
resolveUpdates(newScore) ==
  [score |-> newScore, active_guess |-> Null, guess_timestamp |-> Null]

\* the result is handed to sendToUser whether or not the record was written
afterUpdate_always(written, userId) ==
  LET sent == sendToUser(userId) IN
  [send |-> Some(sent.ret), writes |-> sent.writes,
   clients |-> sent.clients, userClientMap |-> sent.userClientMap]

\* resolveGuess after the await of updateUser: sendToUser, or nothing when
\* updateUser threw
afterUpdate(written, userId) ==
  IF written
    THEN LET sent == sendToUser(userId) IN
         [send |-> Some(sent.ret), writes |-> sent.writes,
          clients |-> sent.clients, userClientMap |-> sent.userClientMap]
    ELSE [send |-> Null, writes |-> <<>>, clients |-> clients,
          userClientMap |-> userClientMap]

\* resolveGuess from updateUser to its end; updateUser throws when the
\* record is gone, and may throw on any call
ResolveWrite(w) ==
  /\ UNCHANGED <<scenario, conn>> /\ NoFeed /\ NoClient /\ NoCache
  /\ wk[w].pc = "update"
  /\ lastResp' = NoResp
  /\ UNCHANGED <<now, redisConnected, btc_price, guess_tasks, req>>
  /\ \E written \in BOOLEAN :
       LET task == wk[w].tasks[wk[w].i]
           user == wk[w].user[1]
           newScore == user.score + wk[w].score_change
           sent == afterUpdate(written, task.userId)
       IN  /\ written => getUserById(task.userId) # Null
           /\ clients' = sent.clients
           /\ userClientMap' = sent.userClientMap
           /\ lastWrites' = sent.writes
           /\ lastSend' = sent.send
           /\ users' = IF written
                         THEN [users EXCEPT ![task.userId] =
                                 updateUser(@, resolveUpdates(newScore))]
                         ELSE users
           /\ lastResolve' =
                IF written
                  THEN Some([task |-> task, read |-> user,
                             written |-> users'[task.userId],
                             result |-> resultOf(task, user, wk[w].price,
                                                 wk[w].is_correct,
                                                 wk[w].score_change,
                                                 newScore)])
                  ELSE Null
           /\ hist' = Bump(Bump(hist, {task}, "outcomes"),
                           IF sent.send = Some(TRUE) THEN {task} ELSE {},
                           "sent")
           /\ wk' = NextTask(w)

\* stop(): clearInterval; a tick in progress goes on
WorkerStop ==
  /\ UNCHANGED <<scenario, gameVars, cli>>
  /\ NoSse /\ NoFeed /\ NoCache /\ NoOutput
  /\ worker.isRunning
  /\ worker' = [isRunning |-> FALSE, interval |-> FALSE]
  /\ lastHealth' = Null

\* ------------------------------------------------------- the environment
\* the record of a user is removed from the table by an operator, after
\* which getUserById finds no Item
DeleteUser(u) ==
  /\ UNCHANGED scenario /\ NoSse /\ NoFeed /\ NoClient /\ NoCache
  /\ u \in DOMAIN users
  /\ users' = [x \in DOMAIN users \ {u} |-> users[x]]
  /\ NoOutput
  /\ UNCHANGED <<now, redisConnected, btc_price, guess_tasks, req, wk, hist>>

\* the data object storePriceData builds from a kline whose close parses to p
sampleOf(p) == [price |-> p]

\* SET with KEEPTTL: a key that exists keeps the time it had left
setEx_keepTtl(value, ttl) ==
  [btc_price |-> Some(value),
   price_ttl |-> IF btc_price = Null THEN ttl ELSE price_ttl]

\* Redis SETEX btc_price ttl value: the value is replaced whole, the TTL restarts
setEx(value, ttl) == [btc_price |-> Some(value), price_ttl |-> ttl]

\* the broadcast is made whether or not setEx threw
afterSetEx_always(stored, data) == broadcastPrice(jsonStringify(data).price)

\* storePriceData after the await of setEx: the broadcast, or the catch
afterSetEx(stored, data) ==
  IF stored THEN broadcastPrice(jsonStringify(data).price)
  ELSE [writes |-> <<>>, clients |-> clients, userClientMap |-> userClientMap]

\* A message of the feed socket: whether it is JSON, its event tag e ("" when
\* it has none) and its kline body k, here the close price of the kline.
klineMessage(p) == [json |-> TRUE, e |-> "kline", k |-> Some(p)]

FeedMessages ==
  {klineMessage(p) : p \in Prices}
    \cup {[json |-> TRUE, e |-> "kline", k |-> Null],
          [json |-> TRUE, e |-> "trade", k |-> Some(105)],
          [json |-> TRUE, e |-> "24hrTicker", k |-> Null],
          [json |-> TRUE, e |-> "", k |-> Some(105)],
          [json |-> FALSE, e |-> "", k |-> Null]}

\* the event tag is not looked at
isKlineMessage_anyTag(m) == m.json /\ m.k # Null

\* JSON.parse returned, and storePriceData's test of the format passes:
\* priceData.e is "kline" and priceData.k is there
isKlineMessage(m) == m.json /\ m.e = "kline" /\ m.k # Null

\* The message handler of the feed socket: storePriceData of a kline tick
\* whose close parses to p.  It returns at once when the Redis service is
\* disconnected; a setEx that throws is caught and nothing is broadcast.
StoreKline(p, m) ==
  /\ UNCHANGED <<scenario, conn>> /\ NoFeed /\ NoClient /\ NoOutput
  /\ ws = "open"
  /\ lastRead' = Null /\ lastSend' = Null
  /\ lastMsg' = IF scenario = "tick" THEN Some(m) ELSE Null
  /\ UNCHANGED <<now, redisConnected, guess_tasks, users, req, wk, hist>>
  /\ IF ~redisConnected
       THEN /\ UNCHANGED <<btc_price, price_ttl, priceLog, clients, userClientMap>>
            /\ lastWrites' = <<>>
       ELSE \E stored \in BOOLEAN :
              LET data == sampleOf(p)
                  set == setEx(jsonStringify(data), cacheTTL)
                  sweep == afterSetEx(stored, data)
              IN  /\ btc_price' = IF stored THEN set.btc_price ELSE btc_price
                  /\ price_ttl' = IF stored THEN set.price_ttl ELSE price_ttl
                  /\ priceLog' = IF stored /\ scenario = "cache"
                                   THEN Some([data |-> data, at |-> now])
                                   ELSE priceLog
                  /\ clients' = sweep.clients
                  /\ userClientMap' = sweep.userClientMap
                  /\ lastWrites' = sweep.writes

\* a kline tick whose close parses to p arrives
StorePriceData(p) ==
  /\ p \in Prices
  /\ StoreKline(p, klineMessage(p))

\* The message handler of the feed socket for any message: JSON.parse, and
\* storePriceData, which returns before the format test when the Redis
\* service is disconnected
FeedMessage(m) ==
  /\ m \in FeedMessages
  /\ IF isKlineMessage(m)
       THEN StoreKline(m.k[1], m)
       ELSE /\ UNCHANGED <<scenario, conn, gameVars, price_ttl, priceLog,
                           clients, userClientMap>>
            /\ NoFeed /\ NoClient /\ NoOutput
            /\ ws = "open"
            /\ lastRead' = Null /\ lastSend' = Null
            /\ lastWrites' = <<>>
            /\ lastMsg' = Some(m)

\* Redis drops the key: the feed wrote nothing for the TTL of the key
ExpirePrice ==
  /\ UNCHANGED scenario /\ NoSse /\ NoFeed /\ NoClient
  /\ btc_price # Null
  /\ btc_price' = Null
  /\ price_ttl' = 0
  /\ UNCHANGED priceLog /\ lastRead' = Null /\ lastMsg' = Null
  /\ NoOutput
  /\ UNCHANGED <<now, redisConnected, guess_tasks, users, req, wk, hist>>

\* A minute passes and Redis counts it against the TTL of btc_price: the key
\* is gone when nothing is left.  (Tick and ExpirePrice do not follow the
\* age of the key; this action does.)
TickTTL ==
  /\ UNCHANGED scenario /\ NoSse /\ NoFeed /\ NoClient
  /\ now < MaxCacheTime
  /\ \A s \in ReqSlots : req[s].pc \in {"idle", "done"}
  /\ now' = now + 1
  /\ price_ttl' = IF price_ttl > 0 THEN price_ttl - 1 ELSE 0
  /\ btc_price' = IF price_ttl <= 1 THEN Null ELSE btc_price
  /\ UNCHANGED priceLog /\ lastRead' = Null /\ lastMsg' = Null
  /\ NoOutput
  /\ UNCHANGED <<redisConnected, guess_tasks, users, req, wk, hist>>

\* the get-latest-price Lambda: 401 without a valid token, 500 when the GET
\* throws, 503 without a sample, else 200 with the sample read
getLatestPriceHandler(auth) ==
  /\ UNCHANGED <<scenario, gameVars, price_ttl, priceLog>>
  /\ lastMsg' = Null
  /\ NoSse /\ NoFeed /\ NoClient /\ NoOutput
  /\ IF ~auth
       THEN lastRead' = Some([statusCode |-> 401, priceData |-> Null])
       ELSE \/ lastRead' = Some([statusCode |-> 500, priceData |-> Null])
            \/ LET priceData == getLatestPrice IN
               lastRead' = Some([statusCode |-> IF priceData = Null THEN 503
                                                ELSE 200,
                                 priceData |-> priceData])

\* the client's "error" and "end" events
RedisError ==
  /\ UNCHANGED scenario /\ NoSse /\ NoFeed /\ NoClient /\ NoCache
  /\ redisConnected
  /\ redisConnected' = FALSE
  /\ NoOutput
  /\ UNCHANGED <<now, btc_price, guess_tasks, users, req, wk, hist>>

\* the client's "connect" event
RedisConnect ==
  /\ UNCHANGED scenario /\ NoSse /\ NoFeed /\ NoClient /\ NoCache
  /\ ~redisConnected
  /\ redisConnected' = TRUE
  /\ NoOutput
  /\ UNCHANGED <<now, btc_price, guess_tasks, users, req, wk, hist>>

\* healthy as soon as one of the two services is connected
healthOf_anyUp(redisStatus, binanceStatus) ==
  [statusCode |-> IF redisStatus.connected \/ binanceStatus.connected
                    THEN 200 ELSE 503,
   redis |-> IF redisStatus.connected THEN "connected" ELSE "disconnected",
   binance |-> IF binanceStatus.connected THEN "connected"
               ELSE "disconnected",
   reconnectAttempts |-> binanceStatus.reconnectAttempts]

\* the status code and the body of GET /health
healthOf(redisStatus, binanceStatus) ==
  [statusCode |-> IF redisStatus.connected /\ binanceStatus.connected
                    THEN 200 ELSE 503,
   redis |-> IF redisStatus.connected THEN "connected" ELSE "disconnected",
   binance |-> IF binanceStatus.connected THEN "connected"
               ELSE "disconnected",
   reconnectAttempts |-> binanceStatus.reconnectAttempts]

\* GET /health: getStatus() of both services, then the response
Health ==
  /\ UNCHANGED <<scenario, gameVars, worker, cli>>
  /\ NoSse /\ NoFeed /\ NoCache /\ NoOutput
  /\ lastHealth' =
       Some(healthOf([connected |-> redisConnected],
                     [connected |-> binanceConnected,
                      reconnectAttempts |-> reconnectAttempts]))

\* A minute passes.  A Lambda invocation is cut off after 30 s
\* (terraform/lambda.tf, timeout), so none is in flight across two instants
\* of the clock; the worker's store calls have no such limit.
Tick ==
  /\ UNCHANGED scenario /\ NoSse /\ NoFeed /\ NoClient /\ NoCache
  /\ now < MaxTime
  /\ \A s \in ReqSlots : req[s].pc \in {"idle", "done"}
  /\ now' = now + 1
  /\ NoOutput
  /\ UNCHANGED <<redisConnected, btc_price, guess_tasks, users, req, wk, hist>>

\* ---------------------------------------------------------- feed connector
RECURSIVE Pow2(_)
Pow2(n) == IF n <= 0 THEN 1 ELSE 2 * Pow2(n - 1)

Min(a, b) == IF a <= b THEN a ELSE b

\* the exponent is the attempt number, not the attempt number less one
scheduleReconnect_double ==
  IF reconnectAttempts < maxReconnectAttempts
    THEN [reconnectAttempts |-> reconnectAttempts + 1,
          reconnectTimer |->
            Some(Min(reconnectDelay * Pow2(reconnectAttempts + 1),
                     MaxReconnectDelay))]
    ELSE [reconnectAttempts |-> reconnectAttempts,
          reconnectTimer |-> reconnectTimer]

\* scheduleReconnect: the counter after it and the timer it sets
scheduleReconnect ==
  IF reconnectAttempts < maxReconnectAttempts
    THEN [reconnectAttempts |-> reconnectAttempts + 1,
          reconnectTimer |->
            Some(Min(reconnectDelay * Pow2((reconnectAttempts + 1) - 1),
                     MaxReconnectDelay))]
    ELSE [reconnectAttempts |-> reconnectAttempts,
          reconnectTimer |-> reconnectTimer]

\* the service process has not exited
Running == shutdown \in {"no", "quitting"}

\* the socket's "open" event
WsOpen ==
  /\ UNCHANGED <<scenario, gameVars, reconnectTimer, shutdown>>
  /\ NoSse /\ NoCache /\ NoOutput /\ NoClient
  /\ Running
  /\ ws = "connecting"
  /\ ws' = "open"
  /\ binanceConnected' = TRUE
  /\ reconnectAttempts' = 0

\* the socket's "error" event
WsError ==
  /\ UNCHANGED <<scenario, gameVars, ws, reconnectAttempts, reconnectTimer,
                 shutdown>>
  /\ NoSse /\ NoCache /\ NoOutput /\ NoClient
  /\ Running
  /\ ws \in {"connecting", "open"}
  /\ binanceConnected' = FALSE

\* the socket's "close" event, also that of a socket close() is closing:
\* scheduleReconnect, whoever closed the socket
WsClose ==
  /\ UNCHANGED <<scenario, gameVars, shutdown>>
  /\ NoSse /\ NoCache /\ NoOutput /\ NoClient
  /\ Running
  /\ ws \in {"connecting", "open", "closing"}
  /\ ws' = "closed"
  /\ binanceConnected' = FALSE
  /\ reconnectAttempts' = scheduleReconnect.reconnectAttempts
  /\ reconnectTimer' = scheduleReconnect.reconnectTimer

\* the timer of scheduleReconnect fires: connect(), whose new WebSocket
\* either is made or throws into scheduleReconnect
Reconnect ==
  /\ UNCHANGED <<scenario, gameVars, binanceConnected, shutdown>>
  /\ NoSse /\ NoCache /\ NoOutput /\ NoClient
  /\ Running
  /\ reconnectTimer # Null
  /\ \/ /\ ws' = "connecting"
        /\ reconnectTimer' = Null
        /\ UNCHANGED reconnectAttempts
     \/ /\ UNCHANGED ws
        /\ reconnectAttempts' = scheduleReconnect.reconnectAttempts
        /\ reconnectTimer' =
             IF reconnectAttempts < maxReconnectAttempts
               THEN scheduleReconnect.reconnectTimer ELSE Null

\* shutdown() on SIGTERM or SIGINT, up to its await of redisService.quit():
\* binanceService.close() calls ws.close() on the socket it holds, which
\* starts the closing handshake of a socket not yet closed; then
\* workerService.stop(), which awaits nothing
Shutdown ==
  /\ UNCHANGED <<scenario, gameVars, cli>>
  /\ UNCHANGED <<binanceConnected, reconnectAttempts, reconnectTimer>>
  /\ NoSse /\ NoCache /\ NoOutput
  /\ lastHealth' = Null
  /\ shutdown = "no"
  /\ ws' = IF ws \in {"connecting", "open"} THEN "closing" ELSE ws
  /\ worker' = [isRunning |-> FALSE, interval |-> FALSE]
  /\ shutdown' = "quitting"

\* redisService.quit() settles: process.exit(0) when it resolved,
\* process.exit(1) from the catch when it rejected
ProcessExit(code) ==
  /\ UNCHANGED <<scenario, gameVars, cli, worker>>
  /\ UNCHANGED <<ws, binanceConnected, reconnectAttempts, reconnectTimer>>
  /\ NoSse /\ NoCache /\ NoOutput
  /\ lastHealth' = Null
  /\ shutdown = "quitting"
  /\ shutdown' = IF code = 0 THEN "exit 0" ELSE "exit 1"

\* ------------------------------------------------- the browser's SSEClient
\* abortController: set and not aborted.  pending: what the connect() call
\* bound to abortController awaits, the fetch or a read of the stream; a
\* call whose controller was aborted returns on AbortError and does nothing
\* more.  silence: 0 while the last chunk is at most 15 s old, 1 when older,
\* 2 when older than 60 s.  last and authError tell what the step did.
\* listeners: how many copies of the Game page's four handlers the listener
\* table holds.  dispatched: the event type handed to listeners in this
\* step.  priceData: the page's state of that name, "null", or a sample that
\* is "fresh" or "stale" (older than 30 s).  fetched: fetchLatestPrice was
\* called in this step.  runs: the runs of the page's SSE effect.  owner:
\* the run whose initializeConnection awaits the pending connect() call.

NoRun == [pc |-> "unused", captured |-> "null", cleaned |-> FALSE,
          timer |-> FALSE]

\* chunk and checked tell which chunk arrived and which run's freshness
\* timer fired in this step
NoChunk == [kind |-> "", type |-> "", throws |-> FALSE]

NewClient ==
  [abortController |-> FALSE, pending |-> "none", isConnected |-> FALSE,
   reconnectAttempts |-> 0, reconnectTimer |-> Null,
   heartbeatTimer |-> FALSE, connectionMonitorTimer |-> FALSE,
   currentUrl |-> FALSE, token |-> TRUE, silence |-> 0,
   last |-> "", authError |-> FALSE,
   listeners |-> 0, dispatched |-> "", priceData |-> "null",
   fetched |-> FALSE, runs |-> [r \in RunSlots |-> NoRun], owner |-> "",
   chunk |-> NoChunk, checked |-> ""]

\* the page has loaded and the user has logged in
ClientInit == cli = NewClient

\* the statuses the fetch of the stream is answered with; 0 is a fetch that
\* rejects with a network error
FetchOutcomes == {200, 401, 403, 500, 0}

\* the reconnect timer is left as it is
disconnect_keepTimer(c) ==
  [c EXCEPT !.heartbeatTimer = FALSE,
            !.connectionMonitorTimer = FALSE, !.abortController = FALSE,
            !.pending = "none", !.isConnected = FALSE, !.currentUrl = FALSE]

\* disconnect(): timers cleared, the controller aborted and dropped
disconnect(c) ==
  [c EXCEPT !.reconnectTimer = Null, !.heartbeatTimer = FALSE,
            !.connectionMonitorTimer = FALSE, !.abortController = FALSE,
            !.pending = "none", !.isConnected = FALSE, !.currentUrl = FALSE]

\* scheduleReconnect(url): the counter goes up and the timer is set
SSEClient_scheduleReconnect(c) ==
  LET attempts == c.reconnectAttempts + 1 IN
  [c EXCEPT !.reconnectAttempts = attempts,
            !.reconnectTimer =
               Some(Min(SSEClient_reconnectDelay * Pow2(attempts - 1),
                        SSEClient_maxReconnectDelay))]

\* a reconnect is scheduled however many attempts were made
connectCatch_always(c) ==
  SSEClient_scheduleReconnect(
    [c EXCEPT !.isConnected = FALSE, !.heartbeatTimer = FALSE,
              !.connectionMonitorTimer = FALSE, !.pending = "none"])

\* the catch of connect() for an error that is not an AbortError
connectCatch(c) ==
  LET d == [c EXCEPT !.isConnected = FALSE, !.heartbeatTimer = FALSE,
                     !.connectionMonitorTimer = FALSE, !.pending = "none"]
  IN  IF d.reconnectAttempts < SSEClient_maxReconnectAttempts
        THEN SSEClient_scheduleReconnect(d)
        ELSE d

\* connect(url) up to the await of fetch
SSEClient_connect(c) ==
  LET d == IF c.abortController THEN disconnect(c) ELSE c
      e == [d EXCEPT !.currentUrl = TRUE, !.abortController = TRUE]
  IN  IF ~e.token THEN connectCatch(e)        \* "No JWT token found"
      ELSE [e EXCEPT !.pending = "fetch"]

\* connect(url) after the await of fetch, for a response of the given status
afterFetch(c, status) ==
  IF status = 200
    THEN [c EXCEPT !.isConnected = TRUE, !.reconnectAttempts = 0,
                   !.heartbeatTimer = TRUE, !.connectionMonitorTimer = TRUE,
                   !.pending = "read"]
  ELSE IF status \in {401, 403}
    THEN connectCatch([c EXCEPT !.token = FALSE, !.authError = TRUE])
  ELSE connectCatch(c)

\* readStream after the loop: the stream ended
streamEnded(c) ==
  LET d == [c EXCEPT !.isConnected = FALSE, !.heartbeatTimer = FALSE,
                     !.connectionMonitorTimer = FALSE, !.pending = "none"]
  IN  IF d.reconnectAttempts < SSEClient_maxReconnectAttempts
        THEN SSEClient_scheduleReconnect(d)
        ELSE d

\* the callback of startConnectionMonitor
connectionMonitor(c) ==
  IF c.abortController
    THEN IF c.silence >= 1 /\ c.isConnected
           THEN LET d == disconnect(c) IN
                IF d.currentUrl THEN SSEClient_scheduleReconnect(d) ELSE d
           ELSE c
    ELSE [c EXCEPT !.connectionMonitorTimer = FALSE]

\* the fields of the client, without what the previous step reported
Fields == [cli EXCEPT !.last = "", !.authError = FALSE, !.dispatched = "",
                      !.fetched = FALSE, !.chunk = NoChunk, !.checked = ""]

\* the step of the client leaves everything of the services alone
ClientStep(c, what) ==
  /\ cli' = [c EXCEPT !.last = what]
  /\ UNCHANGED <<scenario, gameVars, worker>>
  /\ NoOutput /\ NoSse /\ NoFeed /\ NoCache /\ lastHealth' = Null

\* the page calls sseClient.connect(url)
CliConnect ==
  /\ cli.last \in STRING
  /\ ClientStep(SSEClient_connect(Fields), "connect")

\* the timer of scheduleReconnect fires: connect(url)
CliReconnect ==
  /\ cli.reconnectTimer # Null
  /\ ClientStep(SSEClient_connect([Fields EXCEPT !.reconnectTimer = Null]),
                "reconnect")

\* the fetch of the stream settles
CliResponse(status) ==
  /\ cli.pending = "fetch"
  /\ ClientStep(afterFetch(Fields, status),
                IF status = 200 THEN "open"
                ELSE IF status \in {401, 403} THEN "unauthorized"
                ELSE "failed")

\* a chunk of the stream arrives: lastHeartbeat = Date.now()
CliMessage ==
  /\ cli.pending = "read"
  /\ ClientStep([Fields EXCEPT !.silence = 0], "message")

\* reader.read() reports done
CliStreamEnd ==
  /\ cli.pending = "read"
  /\ ClientStep(streamEnded(Fields), "ended")

\* reader.read() rejects with an error that is not an AbortError
CliStreamError ==
  /\ cli.pending = "read"
  /\ ClientStep(connectCatch(Fields), "error")

\* time passes and no chunk arrives
CliSilence ==
  /\ cli.silence < 2
  /\ ClientStep([Fields EXCEPT !.silence = @ + 1], "silence")

\* the callback of startHeartbeatCheck finds the last chunk over 60 s old
CliHeartbeatCheck ==
  /\ cli.heartbeatTimer
  /\ cli.silence = 2
  /\ ClientStep(disconnect(Fields), "stale")

\* the callback of startConnectionMonitor
CliMonitor ==
  /\ cli.connectionMonitorTimer
  /\ ClientStep(connectionMonitor(Fields),
                IF cli.abortController /\ cli.silence >= 1 /\ cli.isConnected
                  THEN "watchdog" ELSE "monitor")

\* the page calls sseClient.disconnect()
CliDisconnect ==
  /\ cli.last \in STRING
  /\ ClientStep(disconnect(Fields), "disconnect")

\* the user logs in again: localStorage.setItem("token", token)
CliLogin ==
  /\ ~cli.token
  /\ ClientStep([Fields EXCEPT !.token = TRUE], "login")

\* ----------------------------------------------------- the Game page
\* the event types the Game page registers handlers for
HandledTypes == {"connection", "test", "price_update", "guess_result"}

\* What a chunk of the stream holds: a comment line (": heartbeat"), a
\* data line that says heartbeat, a data line that is not JSON, a data line
\* whose JSON is null, a price_update without its data field (handleMessage
\* throws on data.data.price before it looks for listeners), or a data line
\* with a JSON object of some type, whose listener may throw.
Chunks ==
  {[kind |-> k, type |-> "", throws |-> FALSE] :
     k \in {"comment", "data-heartbeat", "malformed", "json-null"}}
    \cup {[kind |-> "json-no-data", type |-> "price_update",
           throws |-> FALSE]}
    \cup [kind : {"json"}, type : HandledTypes \cup {"unknown"},
          throws : BOOLEAN]

\* a data line that is not JSON ends the stream with an error
handleChunk_fatal(c, chunk) ==
  IF chunk.kind = "malformed" THEN connectCatch(c)
  ELSE [c EXCEPT !.silence = 0]

\* readStream for one chunk and handleMessage for its line: lastHeartbeat
\* is set for any chunk; JSON.parse and handleMessage run inside a try, and
\* so does each listener
handleChunk(c, chunk) ==
  LET d == [c EXCEPT !.silence = 0] IN
  IF chunk.kind = "json" /\ chunk.type \in HandledTypes /\ c.listeners > 0
    THEN [d EXCEPT !.dispatched = chunk.type,
                   !.priceData =
                      IF chunk.type = "price_update" /\ ~chunk.throws
                        THEN "fresh" ELSE @]
    ELSE d

\* initializeConnection of run r after its await of connect(): the four
\* addEventListener calls and the setInterval of the freshness check
pageResume(c, r) ==
  [c EXCEPT !.listeners = @ + 1, !.runs[r].pc = "done",
            !.runs[r].timer = TRUE, !.owner = ""]

\* the connect() call a run awaits has returned: the run goes on
afterCall(c) ==
  IF c.owner # "" /\ c.pending = "none" THEN pageResume(c, c.owner) ELSE c

\* connect(url) called for run r ("" for the reconnect timer): a call still
\* pending is aborted and returns to the run that awaits it
connectFor(c, r) ==
  LET resumed == IF c.owner # "" THEN pageResume(c, c.owner) ELSE c IN
  afterCall(SSEClient_connect([resumed EXCEPT !.owner = r]))

\* the run whose cleanup has not run yet
CurrentRuns(c) ==
  {r \in RunSlots : c.runs[r].pc # "unused" /\ ~c.runs[r].cleaned}

\* the cleanup of run r: clearInterval of its timer if it is set by now,
\* the four removeEventListener calls, sseClient.disconnect()
cleanup(c, r) ==
  afterCall(disconnect(
    [c EXCEPT !.runs[r].cleaned = TRUE, !.runs[r].timer = FALSE,
              !.listeners = IF @ > 0 THEN @ - 1 ELSE 0]))

\* the callback of dataFreshnessTimer of a run that captured the given
\* priceData: whether it calls fetchLatestPrice.  The captured sample is at
\* least as old as the sample the page holds now.
FreshCheckFetches(captured, priceData) ==
  IF captured = "null" THEN {FALSE}
  ELSE IF priceData = "stale" THEN {TRUE}
  ELSE BOOLEAN

\* the SSE effect runs (mount, or user or sslCheckPassed changed): the
\* cleanup of the run before it, then the new run, whose closure holds the
\* priceData of the render
PgEffect(r) ==
  /\ cli.token
  /\ FirstFree(RunSlots, {x \in RunSlots : cli.runs[x].pc = "unused"}, r)
  /\ LET cur == CurrentRuns(Fields)
         c == IF cur = {} THEN Fields
              ELSE cleanup(Fields, CHOOSE q \in cur : TRUE)
     IN  ClientStep(
           [c EXCEPT !.runs[r] =
              [pc |-> "starting",
               captured |-> IF c.priceData = "null" THEN "null" ELSE "sample",
               cleaned |-> FALSE, timer |-> FALSE]],
           "effect")

\* the page unmounts or the user logs out: the cleanup of the current run
PgUnmount ==
  /\ CurrentRuns(cli) # {}
  /\ ClientStep(cleanup(Fields, CHOOSE q \in CurrentRuns(cli) : TRUE),
                "unmount")

\* initializeConnection of run r after checkSSLCertificate and
\* fetchLatestPrice: connect(url), or nothing when the check failed
PgConnect(r, sslOk, priceOk) ==
  /\ cli.runs[r].pc = "starting"
  /\ LET c == [Fields EXCEPT !.priceData = IF sslOk /\ priceOk
                                              THEN "fresh" ELSE @] IN
     IF sslOk
       THEN ClientStep(connectFor([c EXCEPT !.runs[r].pc = "awaiting"], r),
                       "connect")
       ELSE ClientStep([c EXCEPT !.runs[r].pc = "done"], "no-ssl")

\* the timer of scheduleReconnect fires
PgReconnect ==
  /\ cli.reconnectTimer # Null
  /\ ClientStep(connectFor([Fields EXCEPT !.reconnectTimer = Null], ""),
                "reconnect")

\* the fetch of the stream settles
PgResponse(status) ==
  /\ cli.pending = "fetch"
  /\ ClientStep(afterCall(afterFetch(Fields, status)),
                IF status = 200 THEN "open"
                ELSE IF status \in {401, 403} THEN "unauthorized"
                ELSE "failed")

\* a chunk of the stream arrives
PgMessage(chunk) ==
  /\ cli.pending = "read"
  /\ chunk \in Chunks
  /\ ClientStep([handleChunk(Fields, chunk) EXCEPT !.chunk = chunk],
                "message")

\* reader.read() reports done
PgStreamEnd ==
  /\ cli.pending = "read"
  /\ ClientStep(afterCall(streamEnded(Fields)), "ended")

\* reader.read() rejects with an error that is not an AbortError
PgStreamError ==
  /\ cli.pending = "read"
  /\ ClientStep(afterCall(connectCatch(Fields)), "error")

\* 30 s pass without a new sample
PgAge ==
  /\ cli.priceData = "fresh"
  /\ ClientStep([Fields EXCEPT !.priceData = "stale"], "age")

\* the callback of dataFreshnessTimer of run r; a fetchLatestPrice it calls
\* sets priceData when it succeeds
PgFreshCheck(r, priceOk) ==
  /\ cli.runs[r].timer
  /\ \E f \in FreshCheckFetches(cli.runs[r].captured, cli.priceData) :
       ClientStep([Fields EXCEPT !.fetched = f,
                                 !.checked = r,
                                 !.priceData = IF f /\ priceOk THEN "fresh"
                                               ELSE @],
                  "fresh-check")

InitUser == [score |-> 0, active_guess |-> Null, guess_timestamp |-> Null]

\* nothing submitted, nothing cached
GameInit ==
  /\ now = 0
  /\ redisConnected = TRUE
  /\ btc_price = Null
  /\ price_ttl = 0
  /\ guess_tasks = {}
  /\ users = [u \in Users |-> InitUser]
  /\ req = [s \in ReqSlots |-> IdleReq]
  /\ wk = [w \in WorkerSlots |-> IdleWk]
  /\ hist = <<>>

NoOutputs ==
  /\ lastResp = NoResp
  /\ lastResolve = Null
  /\ lastWrites = <<>>
  /\ lastSend = Null
  /\ lastRead = Null
  /\ lastMsg = Null
  /\ lastHealth = Null
  /\ priceLog = Null

\* WorkerService after start(): the interval is set
WorkerInit == worker = [isRunning |-> TRUE, interval |-> TRUE]

\* no SSE client has connected
SseInit ==
  /\ clients = {}
  /\ userClientMap = <<>>
  /\ conn = [c \in Conns |-> NoConn]

\* the feed socket has opened
FeedOpen ==
  /\ ws = "open"
  /\ binanceConnected = TRUE
  /\ reconnectAttempts = 0
  /\ reconnectTimer = Null
  /\ shutdown = "no"

\* the service is up, the feed is connected, no client is
Init ==
  /\ GameInit /\ NoOutputs /\ SseInit /\ WorkerInit /\ ClientInit /\ FeedOpen
  /\ scenario \in Scenarios

\* BinanceService.initialize has called connect: the socket is connecting
InitFeed ==
  /\ GameInit /\ NoOutputs /\ SseInit /\ WorkerInit /\ ClientInit
  /\ ws = "connecting"
  /\ binanceConnected = FALSE
  /\ reconnectAttempts = 0
  /\ reconnectTimer = Null
  /\ shutdown = "no"
  /\ scenario = "feed"

\* as InitFeed: the service is then told to shut down
InitShutdown ==
  /\ GameInit /\ NoOutputs /\ SseInit /\ WorkerInit /\ ClientInit
  /\ ws = "connecting"
  /\ binanceConnected = FALSE
  /\ reconnectAttempts = 0
  /\ reconnectTimer = Null
  /\ shutdown = "no"
  /\ scenario = "shutdown"

\* as Init, with the age of the cached sample followed
InitCache ==
  /\ GameInit /\ NoOutputs /\ SseInit /\ WorkerInit /\ ClientInit /\ FeedOpen
  /\ scenario = "cache"

\* as Init: kline ticks reach SSE clients through the cache write
InitTick ==
  /\ GameInit /\ NoOutputs /\ SseInit /\ WorkerInit /\ ClientInit /\ FeedOpen
  /\ scenario = "tick"

\* the guess of u1 submitted at 0 at price 100, as queued and recorded by
\* submit-guess
QueuedGuess == [guess |-> "up", price_at_guess |-> 100, timestamp |-> 0]

QueuedTask == [userId |-> "u1", guessData |-> QueuedGuess, createdAt |-> 0]

\* A minute after u1's guess was accepted: the task is due, the price is
\* cached, every submit-guess invocation has returned
QueuedInit ==
  /\ now = 1
  /\ redisConnected = TRUE
  /\ btc_price = Some(jsonStringify(sampleOf(100)))
  /\ price_ttl = cacheTTL
  /\ guess_tasks = {[member |-> QueuedTask, score |-> 0 + ResolveDelay]}
  /\ users = [u \in Users |->
                IF u = "u1"
                  THEN updateUser(InitUser,
                                  [active_guess |-> Some(QueuedGuess),
                                   guess_timestamp |-> Some(0)])
                  ELSE InitUser]
  /\ req = [s \in ReqSlots |-> DoneReq]
  /\ wk = [w \in WorkerSlots |-> IdleWk]
  /\ hist = [m \in {QueuedTask} |-> NewHist(0 + ResolveDelay, 1)]
  /\ NoOutputs /\ SseInit /\ WorkerInit /\ ClientInit /\ FeedOpen

\* ... and a tick ends before the next one fires
InitSSE == QueuedInit /\ scenario = "submits"

\* ... and ticks may overlap
InitDeliver == QueuedInit /\ scenario = "overlap"

Next ==
  \/ \E s \in ReqSlots, u \in Users, g \in GuessInputs :
       SubmitGetUser(s, TRUE, u, g)
  \/ \E s \in ReqSlots : SubmitGetUser(s, FALSE, "", "up")
  \/ \E s \in ReqSlots : SubmitGetPrice(s)
  \/ \E s \in ReqSlots : SubmitAddTask(s)
  \/ \E s \in ReqSlots : SubmitUpdateUser(s)
  \/ \E w \in WorkerSlots : DrainRead(w)
  \/ \E w \in WorkerSlots : DrainRemove(w)
  \/ \E w \in WorkerSlots : GetPrice(w)
  \/ \E w \in WorkerSlots : ResolveRead(w)
  \/ \E w \in WorkerSlots : ResolveWrite(w)
  \/ \E p \in Prices : StorePriceData(p)
  \/ ExpirePrice
  \/ RedisError
  \/ RedisConnect
  \/ Tick

Spec == Init /\ [][Next]_vars

\* SSE clients come and go while the worker resolves the queued guess and
\* the feed reports prices
NextSSE ==
  \/ \E c \in Conns, u \in Users : Connect(c, u)
  \/ \E c \in Conns : ReqClose(c)
  \/ \E c \in Conns : SocketBreak(c)
  \/ \E c \in Conns : Heartbeat(c)
  \/ \E c \in Conns : TestMessage(c)
  \/ \E w \in WorkerSlots : DrainRead(w)
  \/ \E w \in WorkerSlots : DrainRemove(w)
  \/ \E w \in WorkerSlots : GetPrice(w)
  \/ \E w \in WorkerSlots : ResolveRead(w)
  \/ \E w \in WorkerSlots : ResolveWrite(w)
  \/ \E p \in Prices : StorePriceData(p)

SpecSSE == InitSSE /\ [][NextSSE]_vars

\* SSE clients connect while overlapping ticks resolve the queued guess
NextDeliver ==
  \/ \E c \in Conns, u \in Users : Connect(c, u)
  \/ \E c \in Conns : ReqClose(c)
  \/ \E w \in WorkerSlots : DrainRead(w)
  \/ \E w \in WorkerSlots : DrainRemove(w)
  \/ \E w \in WorkerSlots : GetPrice(w)
  \/ \E w \in WorkerSlots : ResolveRead(w)
  \/ \E w \in WorkerSlots : ResolveWrite(w)

SpecDeliver == InitDeliver /\ [][NextDeliver]_vars

\* two guesses submitted at 0, of u1 and of u2, are due
QueuedGuess2 == [guess |-> "down", price_at_guess |-> 100, timestamp |-> 0]

QueuedTask2 == [userId |-> "u2", guessData |-> QueuedGuess2, createdAt |-> 0]

InitBatch ==
  /\ now = 1
  /\ redisConnected = TRUE
  /\ btc_price = Some(jsonStringify(sampleOf(105)))
  /\ price_ttl = cacheTTL
  /\ guess_tasks = {[member |-> QueuedTask, score |-> 0 + ResolveDelay],
                    [member |-> QueuedTask2, score |-> 0 + ResolveDelay]}
  /\ users = [u \in Users |->
                updateUser(InitUser,
                           [active_guess |->
                              Some(IF u = "u1" THEN QueuedGuess
                                   ELSE QueuedGuess2),
                            guess_timestamp |-> Some(0)])]
  /\ req = [s \in ReqSlots |-> DoneReq]
  /\ wk = [w \in WorkerSlots |-> IdleWk]
  /\ hist = [m \in {QueuedTask, QueuedTask2} |->
               NewHist(0 + ResolveDelay, IF m = QueuedTask THEN 1 ELSE 2)]
  /\ NoOutputs /\ SseInit /\ WorkerInit /\ ClientInit /\ FeedOpen
  /\ scenario = "batch"

NextBatch ==
  \/ \E c \in Conns, u \in Users : Connect(c, u)
  \/ \E c \in Conns : SocketBreak(c)
  \/ \E u \in Users : DeleteUser(u)
  \/ \E w \in WorkerSlots : DrainRead(w)
  \/ \E w \in WorkerSlots : DrainRemove(w)
  \/ \E w \in WorkerSlots : GetPrice(w)
  \/ \E w \in WorkerSlots : ResolveRead(w)
  \/ \E w \in WorkerSlots : ResolveWrite(w)

SpecBatch == InitBatch /\ [][NextBatch]_vars

\* ticks over two due guesses, with failing store calls, until stop()
InitLoop ==
  /\ now = 1
  /\ redisConnected = TRUE
  /\ btc_price = Some(jsonStringify(sampleOf(105)))
  /\ price_ttl = cacheTTL
  /\ guess_tasks = {[member |-> QueuedTask, score |-> 0 + ResolveDelay],
                    [member |-> QueuedTask2, score |-> 0 + ResolveDelay]}
  /\ users = [u \in Users |->
                updateUser(InitUser,
                           [active_guess |->
                              Some(IF u = "u1" THEN QueuedGuess
                                   ELSE QueuedGuess2),
                            guess_timestamp |-> Some(0)])]
  /\ req = [s \in ReqSlots |-> DoneReq]
  /\ wk = [w \in WorkerSlots |-> IdleWk]
  /\ hist = [m \in {QueuedTask, QueuedTask2} |->
               NewHist(0 + ResolveDelay, IF m = QueuedTask THEN 1 ELSE 2)]
  /\ NoOutputs /\ SseInit /\ WorkerInit /\ ClientInit /\ FeedOpen
  /\ scenario = "loop"

NextLoop ==
  \/ \E w \in WorkerSlots : DrainRead(w)
  \/ \E w \in WorkerSlots : DrainRemove(w)
  \/ \E w \in WorkerSlots : GetPrice(w)
  \/ \E w \in WorkerSlots : ResolveRead(w)
  \/ \E w \in WorkerSlots : ResolveWrite(w)
  \/ \E c \in Conns, u \in Users : Connect(c, u)
  \/ ExpirePrice
  \/ RedisError
  \/ RedisConnect
  \/ WorkerStop

SpecLoop == InitLoop /\ [][NextLoop]_vars

\* the timer fires as long as it is set and the awaited calls of a tick
\* settle; Redis comes back after an error, and its calls do not throw for
\* ever
SpecLoopFair ==
  /\ SpecLoop
  /\ SF_vars(\E w \in WorkerSlots : DrainRead(w))
  /\ SF_vars(\E w \in WorkerSlots :
               DrainRemove(w) /\ guess_tasks' # guess_tasks)
  /\ WF_vars(\E w \in WorkerSlots : DrainRemove(w))
  /\ WF_vars(\E w \in WorkerSlots : GetPrice(w))
  /\ WF_vars(\E w \in WorkerSlots : ResolveRead(w))
  /\ WF_vars(\E w \in WorkerSlots : ResolveWrite(w))
  /\ WF_vars(RedisConnect)

\* the feed socket opens, reports, fails and is reconnected
NextFeed ==
  \/ WsOpen
  \/ WsError
  \/ WsClose
  \/ Reconnect
  \/ \E p \in Prices : StorePriceData(p)
  \/ RedisError
  \/ RedisConnect
  \/ Health

SpecFeed == InitFeed /\ [][NextFeed]_vars

\* the feed socket opens, fails and is reconnected, and at some point the
\* service is shut down
NextShutdown ==
  \/ WsOpen
  \/ WsError
  \/ WsClose
  \/ Reconnect
  \/ Shutdown
  \/ \E code \in {0, 1} : ProcessExit(code)

SpecShutdown == InitShutdown /\ [][NextShutdown]_vars

\* kline ticks are cached and broadcast while SSE clients come and go and
\* the Redis connection drops and returns
NextTick ==
  \/ \E c \in Conns, u \in Users : Connect(c, u)
  \/ \E c \in Conns : ReqClose(c)
  \/ \E c \in Conns : SocketBreak(c)
  \/ \E p \in Prices : StorePriceData(p)
  \/ \E m \in FeedMessages : FeedMessage(m)
  \/ RedisError
  \/ RedisConnect

SpecTick == InitTick /\ [][NextTick]_vars

\* requests to the SSE endpoint with good and bad tokens
InitAuth ==
  /\ GameInit /\ NoOutputs /\ SseInit /\ WorkerInit /\ ClientInit /\ FeedOpen
  /\ scenario = "auth"

NextAuth ==
  \/ \E c \in Conns, h \in AuthHeaders : SseRequest(c, h)
  \/ \E c \in Conns : ReqClose(c)
  \/ \E c \in Conns : SocketBreak(c)
  \/ \E c \in Conns : Heartbeat(c)
  \/ \E c \in Conns : TestMessage(c)
  \/ \E p \in Prices : StorePriceData(p)

SpecAuth == InitAuth /\ [][NextAuth]_vars

\* the page as InitTick, its SSEClient not yet connected
InitClient ==
  /\ GameInit /\ NoOutputs /\ SseInit /\ WorkerInit /\ ClientInit /\ FeedOpen
  /\ scenario = "client"

\* the browser's SSEClient against a stream that opens, is refused, goes
\* silent, ends and fails
NextClient ==
  \/ CliConnect
  \/ CliReconnect
  \/ \E status \in FetchOutcomes : CliResponse(status)
  \/ CliMessage
  \/ CliStreamEnd
  \/ CliStreamError
  \/ CliSilence
  \/ CliHeartbeatCheck
  \/ CliMonitor
  \/ CliDisconnect
  \/ CliLogin

SpecClient == InitClient /\ [][NextClient]_vars

\* the Game page with its SSE effect, the stream and the freshness timer
InitPage ==
  /\ GameInit /\ NoOutputs /\ SseInit /\ WorkerInit /\ ClientInit /\ FeedOpen
  /\ scenario = "page"

NextPage ==
  \/ \E r \in RunSlots : PgEffect(r)
  \/ PgUnmount
  \/ \E r \in RunSlots, sslOk \in BOOLEAN, priceOk \in BOOLEAN :
       PgConnect(r, sslOk, priceOk)
  \/ PgReconnect
  \/ \E status \in FetchOutcomes : PgResponse(status)
  \/ \E chunk \in Chunks : PgMessage(chunk)
  \/ PgStreamEnd
  \/ PgStreamError
  \/ PgAge
  \/ \E r \in RunSlots, priceOk \in BOOLEAN : PgFreshCheck(r, priceOk)

SpecPage == InitPage /\ [][NextPage]_vars

\* ... where a timer that is set fires, a fetch that is pending settles
SpecClientFair ==
  /\ SpecClient
  /\ WF_vars(CliReconnect)
  /\ WF_vars(\E status \in FetchOutcomes : CliResponse(status))
  /\ WF_vars(CliHeartbeatCheck)
  /\ WF_vars(CliMonitor)

\* the price cache written by the feed, read by get-latest-price and aged
\* by the clock
NextCache ==
  \/ \E p \in Prices : StorePriceData(p)
  \/ \E auth \in BOOLEAN : getLatestPriceHandler(auth)
  \/ TickTTL
  \/ RedisError
  \/ RedisConnect

SpecCache == InitCache /\ [][NextCache]_vars

\* ================================================================ claims
Batch(w) == wk[w].tasks

Holding(w) == wk[w].pc \in {"remove", "price", "resolve", "update"}

Drained(w) == wk[w].pc \in {"price", "resolve", "update"}

\* C1 - no prediction is resolved twice: resolveGuess runs at most once for
\* every task added to guess_tasks, whatever the interleaving of ticks.
C1_ResolvedAtMostOnce == \A m \in DOMAIN hist : hist[m].runs <= 1

\* C2 - getExpiredGuessTasks is atomic: every task is still in the queue and
\* was returned by no call, or is out of the queue and was returned by
\* exactly one call.
C2_DrainAtomic ==
  \A m \in DOMAIN hist :
    IF m \in Members(guess_tasks) THEN hist[m].returned = 0
    ELSE hist[m].returned = 1

\* C3 - in every reachable state the queue holds at most one pending
\* prediction per user id.
C3_OnePendingPerUser ==
  \A u \in Users : Cardinality({e \in guess_tasks : e.member.userId = u}) <= 1

\* C4 - a valid submit-guess of a user whose record, as read, shows a non-null
\* active_guess is answered 400 with the active-guess message whatever the
\* direction, and that step changes neither the queue nor the user records;
\* no such request gets past the check.
C4_ActiveGuessRejected ==
  [][ /\ ( /\ lastResp'.step = "getUser"
           /\ lastResp'.user \in Users
           /\ lastResp'.guess \in {"up", "down"}
           /\ lastResp'.statusCode # 500
           /\ users[lastResp'.user].active_guess # Null )
         => /\ lastResp'.statusCode = 400
            /\ lastResp'.error = ActiveGuessMsg
            /\ UNCHANGED <<guess_tasks, users, hist>>
      /\ \A s \in ReqSlots :
           (req[s].pc = "idle" /\ req'[s].pc = "getPrice")
             => users[req'[s].user].active_guess = Null ]_vars

C4_Witness ==
  /\ lastResp.statusCode = 400
  /\ lastResp.error = ActiveGuessMsg
  /\ lastResp.guess = "down"
  /\ users[lastResp.user].active_guess # Null
  /\ users[lastResp.user].active_guess[1].guess = "up"

\* C5 - every resolution has is_correct = (current > price_at_guess) for up
\* and (current < price_at_guess) for down, and score_change = +1 when
\* correct and -1 otherwise: never 0, and -1 when the price did not move.
C5_OutcomeAndDelta ==
  lastResolve # Null =>
    LET r == lastResolve[1].result IN
    /\ r.guess \in {"up", "down"}
    /\ r.is_correct <=> IF r.guess = "up" THEN r.current_price > r.guess_price
                        ELSE r.current_price < r.guess_price
    /\ r.score_change = IF r.is_correct THEN 1 ELSE -1
    /\ r.score_change \in {1, -1}
    /\ r.current_price = r.guess_price => ~r.is_correct /\ r.score_change = -1

C5_Witness ==
  /\ lastResolve # Null
  /\ lastResolve[1].result.guess = "down"
  /\ lastResolve[1].result.current_price = lastResolve[1].result.guess_price
  /\ lastResolve[1].result.score_change = -1

\* C6 - a successful resolution writes score = score read + score_change and
\* null active_guess and guess_timestamp to the owner's record, and the
\* new_score of the result sent is the score written.
C6_RecordWritten ==
  lastResolve # Null =>
    LET x == lastResolve[1] IN
    /\ users[x.task.userId] = x.written
    /\ x.written.score = x.read.score + x.result.score_change
    /\ x.written.active_guess = Null
    /\ x.written.guess_timestamp = Null
    /\ x.result.new_score = x.written.score
    /\ x.result.user_id = x.task.userId

\* the owner's next submit-guess, after a resolution, is accepted
C6_Witness ==
  /\ lastResp.statusCode = 200
  /\ users[lastResp.user].score # 0
  /\ users[lastResp.user].active_guess # Null

\* C7 - when the price cache is empty or unreadable at the price read of a
\* tick, the drained predictions are dropped: the tick ends, the queue and
\* every user record (score, stale active_guess) stay as they are and no
\* result is sent.
C7_DroppedWithoutPrice ==
  [][ \A w \in WorkerSlots :
        ( /\ wk[w].pc = "price"
          /\ wk'[w] # wk[w]
          /\ (~redisConnected \/ btc_price = Null) )
        => /\ wk'[w] = IdleWk
           /\ UNCHANGED <<guess_tasks, users>>
           /\ lastResolve' = Null
           /\ \A t \in RangeOf(Batch(w)) :
                /\ t \notin Members(guess_tasks')
                   \/ t \in Members(guess_tasks)
                /\ hist'[t].runs = hist[t].runs ]_vars

C7_Witness ==
  /\ btc_price = Null
  /\ \A w \in WorkerSlots : wk[w].pc = "idle"
  /\ \E m \in DOMAIN hist :
       /\ hist[m].outcomes = 1
       /\ hist[m].runs = 0
       /\ m \notin Members(guess_tasks)
       /\ users[m.userId].active_guess = Some(m.guessData)
       /\ users[m.userId].score = 0

C9_NothingBeforeDue ==
  /\ \A w \in WorkerSlots :
       Holding(w) => \A t \in RangeOf(Batch(w)) : hist[t].score <= wk[w].now
  /\ \A m \in DOMAIN hist :
       /\ hist[m].score = m.guessData.timestamp + ResolveDelay
       /\ hist[m].score > now => /\ m \in Members(guess_tasks)
                                 /\ hist[m].returned = 0
                                 /\ hist[m].outcomes = 0
  /\ lastResolve # Null =>
       lastResolve[1].result.resolved_at >=
         lastResolve[1].task.guessData.timestamp + ResolveDelay

C9_Witness ==
  \E w \in WorkerSlots :
    /\ Drained(w)
    /\ \E e \in guess_tasks : e.score > wk[w].now

\* C10 (as stated) - a drain returns the due tasks in ascending resolve-time
\* order and tasks of equal resolve time in the order of submission.
C10_SubmissionOrder ==
  \A w \in WorkerSlots :
    Holding(w) =>
      \A i, j \in 1..Len(Batch(w)) :
        i < j => \/ hist[Batch(w)[i]].score < hist[Batch(w)[j]].score
                 \/ /\ hist[Batch(w)[i]].score = hist[Batch(w)[j]].score
                    /\ hist[Batch(w)[i]].seq < hist[Batch(w)[j]].seq

\* C10 (amended) - a drain returns the due tasks in ascending resolve-time
\* order and tasks of equal resolve time in the order of their serialized
\* members: by user id for two users, whoever submitted first; the worker
\* resolves them in the order returned.
C10_SortedSetOrder ==
  \A w \in WorkerSlots :
    Holding(w) =>
      /\ \A i, j \in 1..Len(Batch(w)) :
           i < j =>
             LET a == Batch(w)[i]
                 b == Batch(w)[j]
             IN  /\ hist[a].score <= hist[b].score
                 /\ hist[a].score = hist[b].score =>
                      /\ UserRank[a.userId] <= UserRank[b.userId]
                      /\ LexLess(MemberKey(a), MemberKey(b))
      /\ wk[w].pc \in {"resolve", "update"} =>
           \A k \in 1..Len(Batch(w)) :
             (k < wk[w].i => hist[Batch(w)[k]].outcomes >= 1)
             /\ (k > wk[w].i => hist[Batch(w)[k]].runs = 0)

C10_Witness ==
  \E w \in WorkerSlots :
    /\ wk[w].pc = "update"
    /\ wk[w].i = 2
    /\ hist[Batch(w)[1]].score = hist[Batch(w)[2]].score
    /\ hist[Batch(w)[1]].seq > hist[Batch(w)[2]].seq
    /\ Batch(w)[1].userId # Batch(w)[2].userId

\* a response registered later than c for the same user exists
SupersededIn(cn, c) ==
  /\ cn[c].state # "unused"
  /\ \E d \in Conns : /\ SlotRank[d] > SlotRank[c]
                      /\ cn[d].state # "unused"
                      /\ cn[d].userId = cn[c].userId

\* the positions of lastWrites that hold a write of the given event type
WritesOf(ws_, type) == {i \in 1..Len(ws_) : ws_[i].type = type}

\* C11 - once a second response is registered for a user the first is ended,
\* is in neither clients nor userClientMap, and no price_update or
\* guess_result is written to it from then on.
C11_EvictedStaysOut ==
  [][ /\ \A c \in Conns :
           SupersededIn(conn', c) =>
             /\ c \notin clients'
             /\ \A u \in DOMAIN userClientMap' : userClientMap'[u] # c
      /\ \A d \in Conns :
           (conn[d].state = "unused" /\ conn'[d].state = "open"
              /\ conn'[d].userId \in DOMAIN userClientMap) =>
             /\ conn'[userClientMap[conn'[d].userId]].state = "ended"
             /\ userClientMap'[conn'[d].userId] = d
             /\ d \in clients'
      /\ \A i \in 1..Len(lastWrites') :
           lastWrites'[i].type \in {"price_update", "guess_result"}
             => ~SupersededIn(conn', lastWrites'[i].conn) ]_vars

C11_Witness ==
  \E c, d \in Conns :
    /\ SupersededIn(conn, c)
    /\ conn[c].state = "ended" /\ conn[c].writable
    /\ conn[d].userId = conn[c].userId
    /\ conn[c].userId \in DOMAIN userClientMap
    /\ userClientMap[conn[c].userId] = d
    /\ Len(lastWrites) = 1
    /\ lastWrites[1].type = "price_update"
    /\ lastWrites[1].conn = d

\* C12 - clients never holds two responses of one user, every entry of
\* userClientMap is the response most recently registered for its user, and
\* every response in clients is the entry of its user.
C12_OnePerUser ==
  /\ \A c, d \in clients : conn[c].userId = conn[d].userId => c = d
  /\ \A u \in DOMAIN userClientMap :
       /\ conn[userClientMap[u]].userId = u
       /\ ~SupersededIn(conn, userClientMap[u])
  /\ \A c \in clients :
       /\ conn[c].userId \in DOMAIN userClientMap
       /\ userClientMap[conn[c].userId] = c

C12_Witness ==
  \E c \in clients, d \in Conns :
    /\ SupersededIn(conn, d)
    /\ conn[d].state = "closed"
    /\ conn[d].userId = conn[c].userId
    /\ conn[c].userId \in DOMAIN userClientMap
    /\ userClientMap[conn[c].userId] = c

\* C13 - a guess_result is written only to a response of the user it is
\* for, and at most one guess_result is written per queued prediction.
C13_OneTargetedWrite ==
  /\ \A i \in WritesOf(lastWrites, "guess_result") :
       conn[lastWrites[i].conn].userId = lastWrites[i].user
  /\ \A m \in DOMAIN hist : hist[m].sent <= 1

\* C14 - sendToUser for a user with no entry in userClientMap returns false,
\* writes nothing and leaves clients, userClientMap and the responses as
\* they are.
C14_MissChangesNothing ==
  [][ ( /\ lastSend' # Null
        /\ lastResolve' # Null
        /\ lastResolve'[1].task.userId \notin DOMAIN userClientMap )
      => /\ lastSend' = Some(FALSE)
         /\ lastWrites' = <<>>
         /\ UNCHANGED <<clients, userClientMap, conn>> ]_vars

C14_Witness ==
  /\ lastSend = Some(FALSE)
  /\ lastWrites = <<>>
  /\ lastResolve # Null
  /\ clients # {}
  /\ \A c \in clients : conn[c].userId # lastResolve[1].task.userId

\* C15 - when sendToUser finds a response for the user: if the write throws
\* it returns false and the response leaves clients and userClientMap; if
\* the write succeeds it returns true and the registry is unchanged.
C15_WriteErrorDeregisters ==
  [][ ( /\ lastSend' # Null
        /\ lastResolve' # Null
        /\ lastResolve'[1].task.userId \in DOMAIN userClientMap )
      => LET u == lastResolve'[1].task.userId
             c == userClientMap[u]
         IN  /\ Len(lastWrites') = 1
             /\ lastWrites'[1].conn = c
             /\ lastWrites'[1].type = "guess_result"
             /\ IF conn[c].writable
                  THEN /\ lastSend' = Some(TRUE)
                       /\ lastWrites'[1].ok
                       /\ UNCHANGED <<clients, userClientMap, conn>>
                  ELSE /\ lastSend' = Some(FALSE)
                       /\ ~lastWrites'[1].ok
                       /\ clients' = clients \ {c}
                       /\ DOMAIN userClientMap' = DOMAIN userClientMap \ {u}
                       /\ \A v \in DOMAIN userClientMap' :
                            userClientMap'[v] = userClientMap[v] ]_vars

C15_Witness ==
  /\ lastSend = Some(FALSE)
  /\ Len(lastWrites) = 1
  /\ lastWrites[1].type = "guess_result"
  /\ ~lastWrites[1].ok
  /\ lastWrites[1].conn \notin clients
  /\ lastWrites[1].user \notin DOMAIN userClientMap

\* C16 - a broadcast writes once to every response that was in clients when
\* it began, whether or not a write to another response threw.
C16_BroadcastReachesAll ==
  [][ WritesOf(lastWrites', "price_update") # {}
      => /\ Len(lastWrites') = Cardinality(clients)
         /\ {lastWrites'[i].conn : i \in 1..Len(lastWrites')} = clients
         /\ \A i \in 1..Len(lastWrites') :
              /\ lastWrites'[i].type = "price_update"
              /\ lastWrites'[i].ok = conn[lastWrites'[i].conn].writable ]_vars

C16_Witness ==
  /\ Len(lastWrites) = 2
  /\ lastWrites[1].type = "price_update" /\ ~lastWrites[1].ok
  /\ lastWrites[2].type = "price_update" /\ lastWrites[2].ok

\* C17 - after a broadcast every response whose write threw is out of the
\* registry: it is not in clients and it is no entry of userClientMap.
C17_FailedLeaveRegistry ==
  \A i \in WritesOf(lastWrites, "price_update") :
    ~lastWrites[i].ok =>
      /\ lastWrites[i].conn \notin clients
      /\ \A u \in DOMAIN userClientMap : userClientMap[u] # lastWrites[i].conn

\* C18 - a kline tick either is written to btc_price and then broadcast
\* once, with the price written, to every response in clients, or is not
\* written and not broadcast; it is not written when the Redis service is
\* disconnected.
C18_OneWriteOneBroadcast ==
  [][ \A p \in Prices :
        StorePriceData(p) =>
          \/ /\ redisConnected
             /\ btc_price' = Some([price |-> p])
             /\ price_ttl' = cacheTTL
             /\ Len(lastWrites') = Cardinality(clients)
             /\ {lastWrites'[i].conn : i \in 1..Len(lastWrites')} = clients
             /\ \A i \in 1..Len(lastWrites') :
                  /\ lastWrites'[i].type = "price_update"
                  /\ lastWrites'[i].price = getLatestPrice'[1].price
          \/ /\ UNCHANGED <<btc_price, price_ttl>>
             /\ lastWrites' = <<>>
             /\ UNCHANGED <<clients, userClientMap>> ]_vars

C18_Witness ==
  /\ Len(lastWrites) = 2
  /\ \A i \in 1..2 : /\ lastWrites[i].type = "price_update"
                     /\ lastWrites[i].ok
                     /\ lastWrites[i].price = 105
  /\ btc_price = Some([price |-> 105])

\* the delay of the n-th consecutive reconnect attempt, in ms
C19_Delay(n) ==
  IF n = 1 THEN 5000 ELSE IF n = 2 THEN 10000 ELSE IF n = 3 THEN 20000
  ELSE 30000

\* C19 - reconnectAttempts stays within 0..10 and is 0 while the socket is
\* open; a closed socket has a reconnect pending with the delay
\* min(5000 * 2^(n-1), 30000) of its attempt n, unless 10 attempts were
\* made without an open, and then none is pending.
C19_Backoff ==
  /\ reconnectAttempts \in 0..10
  /\ ws = "open" => reconnectAttempts = 0 /\ reconnectTimer = Null
  /\ reconnectTimer # Null =>
       /\ ws = "closed"
       /\ reconnectAttempts >= 1
       /\ reconnectTimer[1] = C19_Delay(reconnectAttempts)
  /\ (ws = "closed" /\ reconnectTimer = Null) => reconnectAttempts = 10

C19_Witness ==
  /\ ws = "closed"
  /\ reconnectTimer = Null
  /\ reconnectAttempts = 10

\* what a read of the cache is to return: the last sample written, unless
\* none was or 300 s have passed since
C20_Expected ==
  IF priceLog = Null THEN Null
  ELSE IF now - priceLog[1].at >= cacheTTL THEN Null
  ELSE Some(priceLog[1].data)

C27_InvalidRejected ==
  [][ /\ ( /\ lastResp'.step = "getUser"
           /\ lastResp'.user \in Users
           /\ lastResp'.guess \notin {"up", "down"} )
         => /\ lastResp'.statusCode = 400
            /\ lastResp'.error = InvalidGuessMsg
            /\ UNCHANGED <<guess_tasks, users, hist>>
      /\ ( lastResp'.step = "getUser" /\ lastResp'.user = "" )
         => /\ lastResp'.statusCode = 401
            /\ UNCHANGED <<guess_tasks, users, hist>> ]_vars

\* the delay of the n-th consecutive reconnect attempt of the client, in ms
C23_Delay(n) ==
  IF n = 1 THEN 1000 ELSE IF n = 2 THEN 2000 ELSE IF n = 3 THEN 4000
  ELSE IF n = 4 THEN 8000 ELSE IF n = 5 THEN 16000 ELSE 30000

\* C23 - the client is connected only by the answer to a pending fetch, and
\* that open resets reconnectAttempts to 0; a stream that ends or fails, and
\* a fetch that fails, schedule attempt n with delay min(1000 * 2^(n-1),
\* 30000) ms while fewer than 5 attempts were made and nothing after that;
\* reconnectAttempts stays within 0..5.
C23_ClientBackoff ==
  [][ /\ cli'.reconnectAttempts \in 0..5
      /\ cli'.reconnectTimer # Null =>
           /\ cli'.reconnectAttempts >= 1
           /\ cli'.reconnectTimer = Some(C23_Delay(cli'.reconnectAttempts))
      /\ (cli'.isConnected /\ ~cli.isConnected) =>
           /\ cli.pending = "fetch" /\ ~cli.isConnected
           /\ cli'.pending = "read"
           /\ cli'.reconnectAttempts = 0
      /\ cli'.isConnected => cli'.pending = "read"
      /\ cli'.last \in {"ended", "error"} =>
           /\ cli.isConnected /\ ~cli'.isConnected
           /\ cli'.reconnectAttempts = 1
           /\ cli'.reconnectTimer = Some(1000)
      /\ cli'.last = "failed" =>
           IF cli.reconnectAttempts < 5
             THEN /\ cli'.reconnectAttempts = cli.reconnectAttempts + 1
                  /\ cli'.reconnectTimer # Null
             ELSE /\ cli'.reconnectAttempts = 5
                  /\ cli'.reconnectTimer = Null
                  /\ cli'.pending = "none" ]_vars

C23_Witness ==
  /\ cli.last = "failed"
  /\ cli.reconnectAttempts = 5
  /\ cli.reconnectTimer = Null
  /\ cli.pending = "none"
  /\ ~cli.isConnected

\* C24 - once a watchdog of the connected client has found the stream
\* silent and disconnected it, the client makes a reconnect attempt (unless
\* the page calls connect() or disconnect() or logs in first).
C24_WatchdogReconnects ==
  (cli.last \in {"watchdog", "stale"})
    ~> (cli.last \in {"reconnect", "connect", "disconnect", "login"})

\* C25 - disconnect() leaves no reconnect, heartbeat or monitor timer
\* pending, drops the controller and what was awaited on it, and from then
\* on nothing is fetched until the page calls connect().
C25_DisconnectCancels ==
  [][ /\ cli'.last = "disconnect" =>
           /\ cli'.reconnectTimer = Null
           /\ ~cli'.heartbeatTimer /\ ~cli'.connectionMonitorTimer
           /\ ~cli'.abortController
           /\ cli'.pending = "none"
           /\ ~cli'.isConnected
      /\ ~cli.abortController =>
           /\ cli.reconnectTimer = Null
           /\ ~cli.heartbeatTimer /\ ~cli.connectionMonitorTimer
           /\ cli.pending = "none"
           /\ (cli'.abortController \/ cli'.pending # "none"
                 \/ cli'.reconnectTimer # Null) => cli'.last = "connect" ]_vars

C25_Witness ==
  /\ cli.last = "disconnect"
  /\ cli.reconnectAttempts >= 2
  /\ cli.reconnectTimer = Null
  /\ ~cli.abortController

\* C26 - a fetch of the stream answered 401 or 403 clears the token, raises
\* auth-error and schedules no reconnect.
C26_UnauthorizedNotRetried ==
  [][ cli'.last = "unauthorized" =>
        /\ ~cli'.token
        /\ cli'.authError
        /\ cli'.reconnectTimer = Null
        /\ cli'.reconnectAttempts = cli.reconnectAttempts ]_vars

\* a header whose token verifies
C21_Acceptable(h) == h.present /\ h.signed /\ ~h.expired

\* C21 - a request to the SSE endpoint whose Authorization header is
\* missing, not signed with the secret or expired is answered 401 and is
\* never registered: the registry and the other responses stay as they
\* were, and the rejected response is never written to again.
C21_BadTokenRejected ==
  [][ \A c \in Conns :
        /\ (conn[c].state = "unused" /\ conn'[c].state # "unused"
              /\ ~C21_Acceptable(conn'[c].auth))
             => /\ conn'[c].state = "rejected"
                /\ clients' = clients
                /\ userClientMap' = userClientMap
                /\ \A x \in Conns \ {c} : conn'[x] = conn[x]
                /\ Len(lastWrites') = 1
                /\ lastWrites'[1].conn = c /\ lastWrites'[1].type = "401"
        /\ conn[c].state = "rejected"
             => /\ conn'[c] = conn[c]
                /\ c \notin clients'
                /\ \A u \in DOMAIN userClientMap' : userClientMap'[u] # c
                /\ \A i \in 1..Len(lastWrites') : lastWrites'[i].conn # c
    ]_vars

\* a rejected request, made while another user was registered, and a
\* broadcast made after it
C21_Witness ==
  /\ \E c \in Conns : conn[c].state = "rejected"
  /\ clients # {}
  /\ \E i \in 1..Len(lastWrites) : lastWrites[i].type = "price_update"

\* C22 - the health endpoint answers 200 exactly when the Redis flag and
\* the feed flag are both true and 503 otherwise, and the flags it reports
\* are the isConnected values of the two services at that moment.
C22_HealthReflectsFlags ==
  lastHealth # Null =>
    LET h == lastHealth[1] IN
    /\ h.statusCode = (IF redisConnected /\ binanceConnected
                         THEN 200 ELSE 503)
    /\ (h.redis = "connected") <=> redisConnected
    /\ (h.binance = "connected") <=> binanceConnected
    /\ h.redis \in {"connected", "disconnected"}
    /\ h.binance \in {"connected", "disconnected"}

\* a health check made while Redis is up and the feed is down
C22_Witness ==
  /\ lastHealth # Null
  /\ lastHealth[1].statusCode = 503
  /\ redisConnected /\ ~binanceConnected

\* C28 - within one tick, whatever happens to one drained prediction (its
\* user is not found, a read or a write throws, the delivery fails), the
\* tick goes on to the next prediction of the batch and ends only after
\* the last one, every one of them having been taken up; a prediction
\* whose user is not found changes no record and is not delivered.
C28_RestOfBatchResolved ==
  [][ \A w \in WorkerSlots :
        (wk[w].pc \in {"resolve", "update"} /\ wk'[w] # wk[w]) =>
          LET task == wk[w].tasks[wk[w].i] IN
          /\ wk'[w].pc = "idle" =>
                /\ wk[w].i = Len(wk[w].tasks)
                /\ \A i \in 1..Len(wk[w].tasks) :
                      hist'[wk[w].tasks[i]].runs >= 1
          /\ (wk'[w].pc # "update" /\ wk[w].i < Len(wk[w].tasks)) =>
                /\ wk'[w].pc = "resolve"
                /\ wk'[w].i = wk[w].i + 1
                /\ wk'[w].tasks = wk[w].tasks
          /\ (wk[w].pc = "resolve" /\ task.userId \notin DOMAIN users) =>
                /\ wk'[w].pc # "update"
                /\ users' = users
                /\ lastSend' = Null
                /\ lastWrites' = <<>>
                /\ lastResolve' = Null
    ]_vars

\* the first prediction of a batch of two found its user gone, and the
\* second one was resolved and delivered in the same tick
C28_Witness ==
  /\ lastResolve # Null
  /\ lastSend = Some(TRUE)
  /\ \E m \in DOMAIN hist :
        /\ m.userId \notin DOMAIN users
        /\ hist[m].runs = 1 /\ hist[m].outcomes = 1 /\ hist[m].sent = 0
        /\ lastResolve[1].task # m
        /\ hist[lastResolve[1].task].returned = 1

\* C29 - a tick that fails does not stop the worker: the interval stays
\* set for as long as stop() has not been called, and guesses that are due
\* and still queued after a failed tick are drained by a later tick, unless
\* stop() is called first.
C29_KeepsTicking ==
  /\ [](worker.isRunning => worker.interval)
  /\ (guess_tasks # {}) ~> (guess_tasks = {} \/ ~worker.isRunning)

\* a tick has failed for want of a price, its guesses dropped unresolved,
\* and the worker is idle with its interval set
C29_Witness ==
  /\ worker.isRunning /\ worker.interval
  /\ \A w \in WorkerSlots : wk[w].pc = "idle"
  /\ \E m \in DOMAIN hist :
        hist[m].returned = 1 /\ hist[m].outcomes = 1 /\ hist[m].runs = 0

\* C30 - sendToUser is called for a prediction only after the record of
\* its user was written with the new score and no active guess; whether
\* the user has no connection or the write to the connection throws, the
\* written record stays; when updateUser throws nothing is sent.
C30_SendAfterWrite ==
  [][ /\ lastSend' # Null =>
           /\ lastResolve' # Null
           /\ LET r == lastResolve'[1]
                  u == r.task.userId
              IN  /\ users'[u] = r.written
                  /\ users'[u].score = r.read.score + r.result.score_change
                  /\ users'[u].score = r.result.new_score
                  /\ users'[u].active_guess = Null
                  /\ users'[u].guess_timestamp = Null
      /\ \A w \in WorkerSlots :
           (wk[w].pc = "update" /\ wk'[w] # wk[w] /\ users' = users) =>
             /\ lastSend' = Null
             /\ WritesOf(lastWrites', "guess_result") = {}
    ]_vars

\* the record was written and the write of guess_result to the connection
\* of the user threw
C30_Witness ==
  /\ lastSend = Some(FALSE)
  /\ lastResolve # Null
  /\ \E i \in 1..Len(lastWrites) :
        lastWrites[i].type = "guess_result" /\ ~lastWrites[i].ok
  /\ users[lastResolve[1].task.userId].active_guess = Null

\* C31 - a feed message that is not JSON, whose event tag is not "kline" or
\* that has no kline body writes nothing to the price cache and nothing to
\* any SSE client: the cached sample stays as it was and readable, the
\* registry is untouched and the feed socket stays open for later messages.
C31_NonKlineIgnored ==
  [][ (lastMsg' # Null /\ ~( /\ lastMsg'[1].json
                             /\ lastMsg'[1].e = "kline"
                             /\ lastMsg'[1].k # Null )) =>
        /\ UNCHANGED <<btc_price, price_ttl, clients, userClientMap, conn>>
        /\ getLatestPrice' = getLatestPrice
        /\ lastWrites' = <<>>
        /\ ws' = "open" /\ UNCHANGED binanceConnected
        /\ ENABLED (\E p \in Prices : StorePriceData(p)) ]_vars

\* a message with another event tag was ignored while a sample was cached
\* and an SSE client was registered
C31_Witness ==
  /\ lastMsg # Null
  /\ lastMsg[1].e = "trade"
  /\ btc_price = Some([price |-> 100])
  /\ clients # {}
  /\ redisConnected

\* C32 - the connection event is the one write of the step that accepts a
\* stream request, no response is written to before that step and none
\* gets a connection event after it, so it is written exactly once and
\* before any price_update or guess_result; a test event is written only
\* to a response that is in clients at that time.
C32_ConnectionEventFirst ==
  [][ \A c \in Conns :
        LET to == {i \in 1..Len(lastWrites') : lastWrites'[i].conn = c} IN
        /\ (conn[c].state = "unused" /\ conn'[c].state = "open") =>
              /\ Cardinality(to) = 1
              /\ \A i \in to : lastWrites'[i].type = "connection"
        /\ (conn[c].state = "unused" /\ conn'[c].state = "unused") =>
              to = {}
        /\ conn[c].state # "unused" =>
              \A i \in to : lastWrites'[i].type # "connection"
        /\ \A i \in to :
              lastWrites'[i].type = "test" => c \in clients
    ]_vars

\* a test event written to a registered response at the moment another
\* response, evicted or deregistered, exists and gets none
C32_Witness ==
  /\ Len(lastWrites) = 1
  /\ lastWrites[1].type = "test"
  /\ lastWrites[1].conn \in clients
  /\ \E c \in Conns : Live(c) /\ c \notin clients

\* C33 - whatever chunk the connected client receives (an unknown event
\* type, a payload that is not JSON, a message whose listener throws, a
\* heartbeat comment), the stream keeps being read and the client stays
\* connected with its timers and its reconnect state as they were; every
\* chunk resets the staleness clock; a message of a type that has
\* listeners is handed to them, and nothing else is dispatched.
C33_BadMessageNotFatal ==
  [][ cli'.last = "message" =>
        /\ cli.pending = "read" /\ cli'.pending = "read"
        /\ cli'.isConnected /\ cli.isConnected
        /\ cli'.abortController
        /\ cli'.heartbeatTimer = cli.heartbeatTimer
        /\ cli'.connectionMonitorTimer = cli.connectionMonitorTimer
        /\ cli'.reconnectTimer = cli.reconnectTimer
        /\ cli'.reconnectAttempts = cli.reconnectAttempts
        /\ cli'.silence = 0
        /\ cli'.dispatched =
             (IF /\ cli'.chunk.kind = "json"
                 /\ cli'.chunk.type \in HandledTypes
                 /\ cli.listeners > 0
                THEN cli'.chunk.type ELSE "")
        /\ ENABLED (\E chunk \in Chunks : PgMessage(chunk)) ]_vars

\* a data line that is not JSON has arrived at a connected client that
\* has listeners, and the stream is still being read
C33_Witness ==
  /\ cli.last = "message"
  /\ cli.chunk.kind = "malformed"
  /\ cli.listeners > 0
  /\ cli.isConnected /\ cli.pending = "read"

\* C34: while the stream is connected, every check of the freshness timer
\* of the page's current run of the effect that finds the page's last price
\* sample over 30 s old calls fetchLatestPrice.
C34_StaleSampleRefetched ==
  [][ (/\ cli'.last = "fresh-check"
       /\ cli'.checked \in CurrentRuns(cli)
       /\ cli.isConnected
       /\ cli.priceData = "stale") => cli'.fetched ]_vars

\* C39: a message of the connection a run of the Game page started with
\* sseClient.connect arrives only after that run has registered its
\* handlers: connect() has returned to the run when the stream is open.
C39_HandlersBeforeFirstMessage ==
  [][ (cli'.last = "message" /\ cli.owner # "")
        => /\ cli.runs[cli.owner].pc = "done"
           /\ cli.listeners > 0 ]_vars

\* C35: when the close or error event of a response that was ended by the
\* registration of its user's next response fires, cleanupClient takes only
\* that response out: userClientMap is unchanged, the replacement stays in
\* clients if it was there, and sendToUser still writes to the replacement.
C35_LateCloseKeepsReplacement ==
  [][ \A c \in Conns :
        (/\ conn[c].writableEnded /\ conn[c].state = "ended"
         /\ conn'[c].state = "closed"
         /\ conn[c].userId \in DOMAIN userClientMap
         /\ userClientMap[conn[c].userId] # c)
        => LET u == conn[c].userId
               r == userClientMap[u]
           IN  /\ userClientMap' = userClientMap
               /\ clients' = clients \ {c}
               /\ r \in clients => r \in clients'
               /\ sendToUser(u).writes' =
                     <<WriteTo(r, "guess_result", u, 0)>>' ]_vars

C35_Witness ==
  \E c, r \in Conns :
    /\ c # r
    /\ conn[c].writableEnded /\ conn[c].state = "closed"
    /\ conn[r].userId = conn[c].userId /\ conn[r].state = "open"
    /\ r \in clients
    /\ userClientMap[conn[c].userId] = r
    /\ lastWrites = <<>>

\* C36: in every reachable state a response is in clients if and only if
\* it is the entry of its user in userClientMap.
C36_RegistryConsistent ==
  \A c \in Conns :
    c \in clients <=>
      /\ conn[c].userId \in DOMAIN userClientMap
      /\ userClientMap[conn[c].userId] = c

\* C38: when an invocation of submit-guess returns an error response, the
\* queue holds no task with that request's user and guess data.
C38_NoTaskAfterError ==
  [][ \A s \in ReqSlots :
        (/\ req[s].pc # "done" /\ req'[s].pc = "done"
         /\ lastResp'.statusCode >= 400)
        => ~\E e \in guess_tasks' :
              /\ e.member.userId = req[s].user
              /\ e.member.guessData = guessDataOf(req[s]) ]_vars

\* C37: every resolution that writes a user's record raises the stored
\* score by exactly its score_change: the score it read is the score that
\* is stored when it writes, so that with no resolution in flight the score
\* is 0 plus the sum of score_change over the user's resolutions.
C37_ScoreIsSumOfChanges ==
  [][ lastResolve' # Null =>
        LET r == lastResolve'[1] IN
        /\ r.read.score = users[r.task.userId].score
        /\ users'[r.task.userId].score =
             users[r.task.userId].score + r.result.score_change ]_vars

\* C40: once shutdown() has called BinanceService.close(), no step of the
\* feed connector counts a reconnect attempt, sets a reconnect timer or
\* makes a new socket.
C40_NoReconnectAfterClose ==
  [][ shutdown = "quitting" =>
        /\ reconnectAttempts' = reconnectAttempts
        /\ reconnectTimer' # Null => reconnectTimer' = reconnectTimer
        /\ ws' = "connecting" => ws = "connecting" ]_vars

====
